---- MODULE Spec2Model ----
(***************************************************************************)
(* A model of the categorization core of mercari-buddy:                    *)
(*   - RobustCategoryGenerator      (src/src/robust_categorization.py)     *)
(*   - RateLimiter, generate_categories (src/src/category_gen.py and       *)
(*     src/src/analyze/category_gen.py)                                    *)
(*   - OptimizedCategoryGenerator   (src/src/ai_optimization.py)           *)
(* Texts are TLA+ strings; the Python string methods and the regular       *)
(* expressions the code uses are operators over them.  The only white      *)
(* space that occurs in the modelled texts is the blank " ".               *)
(***************************************************************************)
EXTENDS Integers, Sequences, FiniteSets, TLC

(***************************************************************************)
(* Python string methods                                                   *)
(***************************************************************************)
UpperChars == "ABCDEFGHIJKLMNOPQRSTUVWXYZ"
LowerChars == "abcdefghijklmnopqrstuvwxyz"

CharAt(s, i) == SubSeq(s, i, i)

\* the case mappings of the ASCII letters (tables, evaluated once)
ToLower == [c \in {CharAt(UpperChars, i) : i \in 1..26} |->
               CharAt(LowerChars, CHOOSE i \in 1..26 : CharAt(UpperChars, i) = c)]
ToUpper == [c \in {CharAt(LowerChars, i) : i \in 1..26} |->
               CharAt(UpperChars, CHOOSE i \in 1..26 : CharAt(LowerChars, i) = c)]

IsUpper(c) == c \in DOMAIN ToLower
IsLower(c) == c \in DOMAIN ToUpper
IsAlpha(c) == IsUpper(c) \/ IsLower(c)
IsSpace(c) == c = " "

LowerCh(c) == IF IsUpper(c) THEN ToLower[c] ELSE c
UpperCh(c) == IF IsLower(c) THEN ToUpper[c] ELSE c

\* str.lower()
RECURSIVE Lower(_)
Lower(s) == IF s = "" THEN "" ELSE LowerCh(CharAt(s, 1)) \o Lower(SubSeq(s, 2, Len(s)))

\* str.title(): a letter that follows a non-letter is upper-cased, any other
\* letter is lower-cased
RECURSIVE TitleFrom(_, _)
TitleFrom(s, prevAlpha) ==
    IF s = "" THEN ""
    ELSE LET c == CharAt(s, 1)
         IN  (IF prevAlpha THEN LowerCh(c) ELSE UpperCh(c))
                 \o TitleFrom(SubSeq(s, 2, Len(s)), IsAlpha(c))

Title(s) == TitleFrom(s, FALSE)

\* str.strip()
RECURSIVE LStrip(_)
LStrip(s) == IF s # "" /\ IsSpace(CharAt(s, 1)) THEN LStrip(SubSeq(s, 2, Len(s))) ELSE s

RECURSIVE RStrip(_)
RStrip(s) ==
    IF s # "" /\ IsSpace(CharAt(s, Len(s))) THEN RStrip(SubSeq(s, 1, Len(s) - 1)) ELSE s

Strip(s) == RStrip(LStrip(s))

\* str.startswith(prefix)
StartsWith(s, prefix) == Len(prefix) <= Len(s) /\ SubSeq(s, 1, Len(prefix)) = prefix

\* the Python expression  (needle in hay)  on strings
Contains(hay, needle) ==
    \E i \in 1..(Len(hay) - Len(needle) + 1) : SubSeq(hay, i, i + Len(needle) - 1) = needle

\* the Python expression  (x in list)
InSeq(x, seq) == \E i \in 1..Len(seq) : seq[i] = x

(***************************************************************************)
(* RobustCategoryGenerator: the fixed taxonomy                             *)
(***************************************************************************)
valid_categories ==
    << [category |-> "Clothing", subcategories |->
          <<"Dresses", "Tops", "Bottoms", "Outerwear", "Activewear", "Sleepwear",
            "Underwear", "Swimwear", "Accessories", "Uniforms", "Costumes">>],
       [category |-> "Footwear", subcategories |->
          <<"Athletic Shoes", "Casual Shoes", "Dress Shoes", "Boots", "Sandals",
            "Heels", "Flats", "Slippers", "Specialty Footwear">>],
       [category |-> "Beauty", subcategories |->
          <<"Makeup", "Skincare", "Hair Care", "Fragrances", "Nail Care",
            "Bath & Body", "Tools & Accessories", "Men's Grooming">>],
       [category |-> "Electronics", subcategories |->
          <<"Mobile Phones", "Computers", "Audio & Video", "Gaming", "Cameras",
            "Wearables", "Smart Home", "Accessories", "Components">>],
       [category |-> "Home & Garden", subcategories |->
          <<"Furniture", "Decor", "Kitchen & Dining", "Bedding & Bath", "Storage",
            "Lighting", "Garden & Outdoor", "Cleaning Supplies", "Tools">>],
       [category |-> "Sports & Outdoors", subcategories |->
          <<"Exercise Equipment", "Outdoor Gear", "Sports Equipment", "Athletic Wear",
            "Water Sports", "Winter Sports", "Team Sports", "Fitness Accessories">>],
       [category |-> "Toys & Games", subcategories |->
          <<"Action Figures", "Dolls", "Board Games", "Educational Toys",
            "Electronic Toys", "Outdoor Toys", "Arts & Crafts", "Collectibles",
            "Baby Toys">>],
       [category |-> "Books & Media", subcategories |->
          <<"Books", "Movies & TV", "Music", "Video Games", "Magazines",
            "Educational Materials", "Digital Media">>],
       [category |-> "Automotive", subcategories |->
          <<"Parts & Accessories", "Tools & Equipment", "Car Care", "Electronics",
            "Interior Accessories", "Exterior Accessories", "Tires & Wheels">>],
       [category |-> "Health & Personal Care", subcategories |->
          <<"Vitamins & Supplements", "Medical Supplies", "Personal Care", "Oral Care",
            "Vision Care", "First Aid", "Mobility Aids">>],
       [category |-> "Jewelry & Watches", subcategories |->
          <<"Fine Jewelry", "Fashion Jewelry", "Watches", "Accessories",
            "Wedding & Engagement", "Men's Jewelry">>],
       [category |-> "Baby & Kids", subcategories |->
          <<"Baby Clothing", "Baby Gear", "Diapers & Feeding", "Toys",
            "Kids Clothing", "Kids Furniture", "Safety Products">>] >>

\* None of the Python code
None == "<None>"

\* the entry of task_result for a coroutine that has not returned
NotReturned == <<>>

\* index of a category name in valid_categories, 0 when it is no key
CategoryIndex(category) ==
    LET hits == {i \in 1..Len(valid_categories) : valid_categories[i].category = category}
    IN  IF hits = {} THEN 0 ELSE CHOOSE i \in hits : TRUE

\* the expression  category in self.valid_categories
IsCategory(category) == CategoryIndex(category) > 0

\* self.valid_categories[category]
Subcategories(category) == valid_categories[CategoryIndex(category)].subcategories

\* membership of a pair in the taxonomy
InTaxonomy(category, subcategory) ==
    IsCategory(category) /\ InSeq(subcategory, Subcategories(category))

\* the smallest element of a non-empty set of integers
Min(S) == CHOOSE x \in S : \A y \in S : x <= y

\* category.lower() and subcat.lower() for the whole taxonomy (tables,
\* evaluated once)
category_lower_of == [i \in 1..Len(valid_categories) |-> Lower(valid_categories[i].category)]
subcats_lower_of ==
    [i \in 1..Len(valid_categories) |->
        [k \in 1..Len(valid_categories[i].subcategories) |->
            Lower(valid_categories[i].subcategories[k])]]

\* self.category_lookup: the value stored under a key is the last one written.
\* The key of category i is written before the keys of the subcategories of
\* categories i, i+1, ...; its value is still the category name (a str) unless
\* one of those subcategories has the same lower-cased text.  This is the set
\* of the categories whose key still maps to a str.
category_lookup_categories ==
    {i \in 1..Len(valid_categories) :
        \A j \in i..Len(valid_categories) :
            \A k \in 1..Len(subcats_lower_of[j]) :
                subcats_lower_of[j][k] # category_lower_of[i]}

(***************************************************************************)
(* RobustCategoryGenerator: validation and correction                      *)
(***************************************************************************)
keyword_mapping ==
    << <<"cloth", "Clothing">>, <<"apparel", "Clothing">>, <<"fashion", "Clothing">>,
       <<"shoe", "Footwear">>, <<"boot", "Footwear">>, <<"sneaker", "Footwear">>,
       <<"makeup", "Beauty">>, <<"cosmetic", "Beauty">>, <<"skincare", "Beauty">>,
       <<"electronic", "Electronics">>, <<"tech", "Electronics">>,
       <<"gadget", "Electronics">>,
       <<"furniture", "Home & Garden">>, <<"decor", "Home & Garden">>,
       <<"kitchen", "Home & Garden">>,
       <<"sport", "Sports & Outdoors">>, <<"fitness", "Sports & Outdoors">>,
       <<"exercise", "Sports & Outdoors">>,
       <<"toy", "Toys & Games">>, <<"game", "Toys & Games">>, <<"doll", "Toys & Games">>,
       <<"book", "Books & Media">>, <<"movie", "Books & Media">>,
       <<"music", "Books & Media">>,
       <<"car", "Automotive">>, <<"auto", "Automotive">>, <<"vehicle", "Automotive">>,
       <<"health", "Health & Personal Care">>, <<"medical", "Health & Personal Care">>,
       <<"jewelry", "Jewelry & Watches">>, <<"watch", "Jewelry & Watches">>,
       <<"ring", "Jewelry & Watches">>,
       <<"baby", "Baby & Kids">>, <<"kid", "Baby & Kids">>, <<"infant", "Baby & Kids">> >>

\* find_closest_category: exact key, then containment either way against the
\* category keys of category_lookup, then the keyword table; None when all miss
find_closest_category(category) ==
    LET category_lower == Lower(category)
        exact   == {i \in category_lookup_categories : category_lower_of[i] = category_lower}
        partial == {i \in category_lookup_categories :
                       \/ Contains(category_lower_of[i], category_lower)
                       \/ Contains(category_lower, category_lower_of[i])}
        words   == {i \in 1..Len(keyword_mapping) :
                       Contains(category_lower, keyword_mapping[i][1])}
    IN  IF exact # {} THEN valid_categories[Min(exact)].category
        ELSE IF partial # {} THEN valid_categories[Min(partial)].category
        ELSE IF words # {} THEN keyword_mapping[Min(words)][2]
        ELSE None

\* a variant of find_closest_subcategory without correction: the subcategory is
\* kept as the model gave it
find_closest_subcategory_uncorrected(subcategory, category) == subcategory

\* find_closest_subcategory: exact (case-insensitive), then containment either
\* way, else the category's first subcategory
find_closest_subcategory(subcategory, category) ==
    LET subcategory_lower == Lower(subcategory)
        valid_subcats == Subcategories(category)
        lowered == subcats_lower_of[CategoryIndex(category)]
        exact   == {i \in 1..Len(valid_subcats) : subcategory_lower = lowered[i]}
        partial == {i \in 1..Len(valid_subcats) :
                       \/ Contains(lowered[i], subcategory_lower)
                       \/ Contains(subcategory_lower, lowered[i])}
    IN  IF exact # {} THEN valid_subcats[Min(exact)]
        ELSE IF partial # {} THEN valid_subcats[Min(partial)]
        ELSE valid_subcats[1]

\* a variant of validate_and_correct_categories that accepts registered pairs
\* only and corrects nothing
validate_exact_only(category0, subcategory0) ==
    LET category    == Title(Strip(category0))
        subcategory == Title(Strip(subcategory0))
    IN  IF InTaxonomy(category, subcategory)
        THEN <<category, subcategory>>
        ELSE <<None, None>>

\* validate_and_correct_categories: <<category, subcategory>> or <<None, None>>
validate_and_correct_categories(category0, subcategory0) ==
    LET category    == Title(Strip(category0))
        subcategory == Title(Strip(subcategory0))
    IN  IF IsCategory(category)
        THEN IF InSeq(subcategory, Subcategories(category))
             THEN <<category, subcategory>>
             ELSE <<category, find_closest_subcategory(subcategory, category)>>
        ELSE LET best_category == find_closest_category(category)
             IN  IF best_category # None
                 THEN <<best_category, find_closest_subcategory(subcategory, best_category)>>
                 ELSE <<None, None>>

\* extract_single_category: the first category whose lower-cased name occurs in
\* the text, or None
extract_single_category(text) ==
    LET text_lower == Lower(text)
        hits == {i \in 1..Len(valid_categories) : Contains(text_lower, category_lower_of[i])}
    IN  IF hits # {} THEN valid_categories[Min(hits)].category ELSE None

fallback_rules ==
    << [keywords |-> <<"dress", "shirt", "pants", "jacket", "coat", "sweater", "blouse">>,
        pair |-> <<"Clothing", "Tops">>],
       [keywords |-> <<"shoe", "boot", "sneaker", "sandal", "heel">>,
        pair |-> <<"Footwear", "Casual Shoes">>],
       [keywords |-> <<"perfume", "cologne", "fragrance", "scent">>,
        pair |-> <<"Beauty", "Fragrances">>],
       [keywords |-> <<"makeup", "lipstick", "foundation", "mascara">>,
        pair |-> <<"Beauty", "Makeup">>],
       [keywords |-> <<"phone", "iphone", "samsung", "mobile">>,
        pair |-> <<"Electronics", "Mobile Phones">>],
       [keywords |-> <<"laptop", "computer", "macbook", "pc">>,
        pair |-> <<"Electronics", "Computers">>],
       [keywords |-> <<"book", "novel", "magazine">>,
        pair |-> <<"Books & Media", "Books">>],
       [keywords |-> <<"watch", "clock", "timepiece">>,
        pair |-> <<"Jewelry & Watches", "Watches">>],
       [keywords |-> <<"ring", "necklace", "bracelet", "earring">>,
        pair |-> <<"Jewelry & Watches", "Fine Jewelry">>],
       [keywords |-> <<"bag", "purse", "handbag", "backpack">>,
        pair |-> <<"Clothing", "Accessories">>] >>

\* get_fallback_category: <<category, subcategory, is_valid>> from the title's
\* keywords, else the fixed default pair
get_fallback_category(title) ==
    LET title_lower == Lower(title)
        hits == {i \in 1..Len(fallback_rules) :
                    \E k \in 1..Len(fallback_rules[i].keywords) :
                        Contains(title_lower, fallback_rules[i].keywords[k])}
    IN  IF hits # {}
        THEN <<fallback_rules[Min(hits)].pair[1], fallback_rules[Min(hits)].pair[2], FALSE>>
        ELSE <<"Clothing", "Accessories", FALSE>>

(***************************************************************************)
(* RobustCategoryGenerator: parsing the response                           *)
(***************************************************************************)
prefixes_to_remove ==
    <<"category:", "category ", "answer:", "result:",
      "the category is", "this product is", "product:">>

\* the prefix loop: each prefix in turn is cut off the current text when the
\* lower-cased text starts with it
RECURSIVE RemovePrefixes(_, _)
RemovePrefixes(cleaned, i) ==
    IF i > Len(prefixes_to_remove) THEN cleaned
    ELSE IF StartsWith(Lower(cleaned), prefixes_to_remove[i])
         THEN RemovePrefixes(Strip(SubSeq(cleaned, Len(prefixes_to_remove[i]) + 1,
                                          Len(cleaned))), i + 1)
         ELSE RemovePrefixes(cleaned, i + 1)

\* the character class [A-Za-z\s&]
InClass(c) == IsAlpha(c) \/ IsSpace(c) \/ c = "&"

\* the list of patterns in the opposite order
patterns_reversed == <<">", "-", ":", "|">>

\* the separators of the four patterns, in the order of the list `patterns`:
\*   ([A-Za-z\s&]+)\|([A-Za-z\s&]+)         ([A-Za-z\s&]+):\s*([A-Za-z\s&]+)
\*   ([A-Za-z\s&]+)\s*-\s*([A-Za-z\s&]+)    ([A-Za-z\s&]+)\s*>\s*([A-Za-z\s&]+)
patterns == <<"|", ":", "-", ">">>

\* Where re.search finds a pattern: white space is in the class, so every
\* pattern matches exactly at a separator that stands between two characters
\* of the class, and the leftmost match is at the first such separator.
SeparatorHits(text, sep) ==
    {k \in 2..(Len(text) - 1) :
        /\ CharAt(text, k) = sep
        /\ InClass(CharAt(text, k - 1))
        /\ InClass(CharAt(text, k + 1))}

\* the maximal run of class characters that ends at position k
RECURSIVE RunEndingAt(_, _)
RunEndingAt(text, k) ==
    IF k >= 1 /\ InClass(CharAt(text, k))
    THEN RunEndingAt(text, k - 1) \o CharAt(text, k)
    ELSE ""

\* the maximal run of class characters that starts at position k
RECURSIVE RunStartingAt(_, _)
RunStartingAt(text, k) ==
    IF k <= Len(text) /\ InClass(CharAt(text, k))
    THEN CharAt(text, k) \o RunStartingAt(text, k + 1)
    ELSE ""

\* re.search(pattern, cleaned): <<group(1).strip(), group(2).strip()>> of the
\* leftmost match (both groups are greedy), or <<>> when there is no match
re_search(sep, text) ==
    LET hits == SeparatorHits(text, sep)
    IN  IF hits = {} THEN <<>>
        ELSE <<Strip(RunEndingAt(text, Min(hits) - 1)),
               Strip(RunStartingAt(text, Min(hits) + 1))>>

\* the loop over the patterns: the first pattern that matches AND validates
\* gives the result; <<None, None>> when no pattern does
RECURSIVE TryPatterns(_, _)
TryPatterns(cleaned, i) ==
    IF i > Len(patterns) THEN <<None, None>>
    ELSE LET match == re_search(patterns[i], cleaned)
             validated == IF match = <<>> THEN <<None, None>>
                          ELSE validate_and_correct_categories(match[1], match[2])
         IN  IF validated[1] # None /\ validated[2] # None
             THEN validated
             ELSE TryPatterns(cleaned, i + 1)

\* the text the patterns are applied to
CleanResponse(response_text) == RemovePrefixes(Strip(response_text), 1)

\* parse_and_validate_response: <<category, subcategory, is_valid>>
parse_and_validate_response(response_text, title) ==
    LET cleaned == CleanResponse(response_text)
        validated == TryPatterns(cleaned, 1)
        single_category == extract_single_category(cleaned)
    IN  IF validated[1] # None
        THEN <<validated[1], validated[2], TRUE>>
        ELSE IF single_category # None
             THEN <<single_category, Subcategories(single_category)[1], FALSE>>
             ELSE get_fallback_category(title)

(***************************************************************************)
(* Bounds of the model                                                     *)
(***************************************************************************)
\* number of titles in the input list
NumTitles == 2
\* largest batch_size tried
MaxBatchSize == 2
\* largest max_retries tried (the default of get_category_with_retries is 3)
RetryBound == 3
\* largest requests-per-minute ceiling tried
MaxRpm == 2
\* largest semaphore value tried
MaxConcurrent == 2
\* number of calls of get_category_with_optimizations in a run
MaxLookups == 3
\* number of titles of the cluster the confidence estimators score
MaxClusterSize == 10
\* number of cells of the title column given to normalize_titles
MaxColumn == 3
\* number of callers that may be inside cache_category at once
MaxWriters == 2
\* number of calls of cache_category in a run
MaxCalls == 3

(***************************************************************************)
(* State                                                                   *)
(***************************************************************************)
VARIABLES
    pipeline,      \* which entry point runs: "robust", "limited" or "optimized"
    titles,        \* the input list of titles
    batch_size,    \* the batch size of the run
    batch_start,   \* loop variable i of the batch loop
    main_pc,       \* position of the entry point: "loop", "gather", "returned"
    task_pc,       \* per title: position of its coroutine
    task_result,   \* per title: what its coroutine returned
    done_order,    \* the tasks of the current batch in the order they finished
    results,       \* the list the entry point assembles and returns
    last_outcome,  \* per title: how its latest external call ended (None before)
    calls_issued,  \* per title: number of external calls issued for it
    max_retries,   \* robust: the retry bound
    attempt,       \* robust: per title, loop variable of the retry loop
    all_raised,    \* robust: every external call that has ended so far raised
    rpm,           \* limited: RateLimiter.max_requests_per_minute
    concurrent,    \* limited: the initial value of the semaphore
    permits,       \* limited: the current value of the semaphore
    lock_holder,   \* limited: the task inside RateLimiter.lock, 0 when free
    requests,      \* limited: RateLimiter.requests, each timestamp as its age
    admits,        \* limited: ages of the returns of wait_if_needed in the window
    sleep_left,    \* limited: time the sleep inside wait_if_needed still lasts
    cache_db,      \* optimized: table category_cache, title_hash -> row
    category_cache,\* optimized: self.category_cache, in insertion order
    encode,        \* optimized: the sentence model, title -> embedding
    history,       \* optimized: the lookups made so far, oldest first
    estimator,     \* confidence: the module whose estimator runs
    df,            \* confidence: the frame, one row per title
    confidence_scores, \* confidence: the list the estimator builds, in thousandths
    score_pc,      \* confidence: "scoring", "computed" or "attached"
    api_key,       \* startup: the value of OPENAI_API_KEY in the environment
    entry_module,  \* startup: the module that is run
    phase,         \* startup: "startup", "loaded", "running", "fatal", "type_error"
    progress_calls,\* startup: the invocations of the progress callback so far
    title_column,  \* normalizing: the title column passed in
    normalizer,    \* normalizing: the module whose normalize_titles runs
    normalized,    \* normalizing: the list product_titles built so far
    norm_pc,       \* normalizing: "loop", "returned" or "raised"
    category_cache_table, \* cache: the rows of table category_cache, by rowid
    db_time,       \* cache: CURRENT_TIMESTAMP of the latest statement
    pending,       \* cache: per caller, the statement cache_category is about to run
    write_log,     \* cache: the statements run so far, oldest first
    parse_response,\* parsing: the response text given to the parser
    parse_title,   \* parsing: the title given to the parser
    parse_pc,      \* parsing: index of the next pattern, then AfterLoop, Returned
    parse_matched, \* parsing: the separators of the patterns that matched so far
    parse_result   \* parsing: the value returned (<<>> before)

robustVars == <<max_retries, attempt, all_raised>>
limitedVars == <<rpm, concurrent, permits, lock_holder, requests, admits, sleep_left>>
optimizedVars == <<cache_db, category_cache, encode, history>>
batchVars == <<titles, batch_size, batch_start, main_pc, task_pc, task_result,
               done_order, results, last_outcome, calls_issued>>

scoreVars == <<estimator, df, confidence_scores, score_pc>>
entryVars == <<api_key, entry_module, phase, progress_calls>>
normVars == <<title_column, normalizer, normalized, norm_pc>>
cacheVars == <<category_cache_table, db_time, pending, write_log>>
parseVars == <<parse_response, parse_title, parse_pc, parse_matched, parse_result>>
supportVars == <<scoreVars, entryVars, normVars, cacheVars, parseVars>>

vars == <<pipeline, titles, batch_size, batch_start, main_pc, task_pc, task_result,
          done_order, results, last_outcome, calls_issued, robustVars, limitedVars,
          optimizedVars, supportVars>>

\* the variables of the optimized generator while another entry point runs
OptimizedIdle ==
    /\ cache_db = <<>>
    /\ category_cache = <<>>
    /\ encode = <<>>
    /\ history = <<>>

\* the variables of the rate-limited pipeline while another entry point runs
LimitedIdle ==
    /\ rpm = 0
    /\ concurrent = 0
    /\ permits = 0
    /\ lock_holder = 0
    /\ requests = <<>>
    /\ admits = <<>>
    /\ sleep_left = 0

\* the variables of the robust pipeline while another entry point runs
RobustIdle ==
    /\ max_retries = 0
    /\ attempt = <<>>
    /\ all_raised = TRUE

\* the variables of the batch loops while no batch pipeline runs
BatchIdle ==
    /\ titles = <<>>
    /\ batch_size = 0
    /\ batch_start = 0
    /\ main_pc = "loop"
    /\ task_pc = <<>>
    /\ task_result = <<>>
    /\ done_order = <<>>
    /\ results = <<>>
    /\ last_outcome = <<>>
    /\ calls_issued = <<>>

\* the variables of the callers of cache_category while none of them runs
CacheIdle ==
    /\ category_cache_table = <<>>
    /\ db_time = 0
    /\ pending = <<>>
    /\ write_log = <<>>

\* the variables of the parser while it is not run on its own
ParseIdle ==
    /\ parse_response = ""
    /\ parse_title = ""
    /\ parse_pc = 0
    /\ parse_matched = <<>>
    /\ parse_result = <<>>

\* the variables of the confidence estimators while none of them runs
ScoreIdle ==
    /\ estimator = None
    /\ df = <<>>
    /\ confidence_scores = <<>>
    /\ score_pc = None

\* the variables of normalize_titles while it is not what runs
NormIdle ==
    /\ title_column = <<>>
    /\ normalizer = None
    /\ normalized = <<>>
    /\ norm_pc = None

\* the variables of the start of the program once a pipeline runs: the
\* module was imported with a key in the environment and the entry point
\* accepted its call
EntryIdle ==
    /\ api_key = "sk-key"
    /\ entry_module = None
    /\ phase = "running"
    /\ progress_calls = <<>>

(***************************************************************************)
(* The external service, as the robust pipeline sees it                    *)
(***************************************************************************)
\* the call raised (network error, timeout, no content)
Raises == "<exception>"

\* texts the service may answer with: well-formed, other separators, wrong
\* case, hallucinated names, prose, a prefix
RobustResponses ==
    {"Footwear|Boots", "Footwear - Running Shoes", "footwear: casual",
     "Sneakers > Boots", "Gizmo|Thing", "I think Beauty",
     "Category: Electronics|Gaming"}

RobustOutcomes == RobustResponses \cup {Raises}

\* test_titles of the module's __main__ block
test_titles ==
    <<"Nike Air Max Running Shoes", "Samsung Galaxy S21 Phone", "Levi's 501 Jeans",
      "MAC Ruby Woo Lipstick", "Something completely random and unclear",
      "Broken response test", "Apple MacBook Pro 13 inch">>

Tasks == 1..Len(titles)

\* parse_and_validate_response on the texts and titles of the model (a table,
\* evaluated once)
parse_table ==
    [response \in RobustResponses |->
        [k \in 1..Len(test_titles) |->
            parse_and_validate_response(Strip(response), test_titles[k])]]

\* response_text = response.choices[0].message.content.strip(), then
\* parse_and_validate_response(response_text, title)
ParsedResponse(outcome, title) ==
    parse_table[outcome][CHOOSE k \in 1..Len(test_titles) : test_titles[k] = title]

\* get_fallback_category on the titles of the model (a table, evaluated once)
fallback_table ==
    [k \in 1..Len(test_titles) |-> get_fallback_category(test_titles[k])]

\* a fallback that knows the default pair only
FallbackDefaultOnly(title) == <<"Clothing", "Accessories", FALSE>>

\* category, subcategory, _ = self.get_fallback_category(title)
FallbackOf(title) ==
    fallback_table[CHOOSE k \in 1..Len(test_titles) : test_titles[k] = title]

\* a batch that takes every remaining title, as a gather over all tasks would
BatchOfAll(i) == {j \in Tasks : i < j}

\* titles[i:i + batch_size], as the set of its indices
BatchOf(i) == {j \in Tasks : i < j /\ j <= i + batch_size}

(***************************************************************************)
(* RobustCategoryGenerator.get_category_with_retries                       *)
(***************************************************************************)
\* a variant of the response branch that returns on the last attempt only
AfterResponseLastOnly(parsed, att, retries) ==
    IF att = retries - 1
    THEN <<parsed[1], parsed[2], parsed[3], att + 1>>
    ELSE None

\* the try branch once the answer is parsed: the value returned, or None when
\* the loop goes on to the next attempt
AfterResponse(parsed, att, retries) ==
    IF parsed[3] \/ att = retries - 1
    THEN <<parsed[1], parsed[2], parsed[3], att + 1>>
    ELSE None

\* an except branch that does not count the request that raised
AfterExceptionNotCounted(fb, att, retries) ==
    IF att = retries - 1
    THEN <<fb[1], fb[2], FALSE, att>>
    ELSE None

\* an except branch that never gives up: the exception of the last attempt
\* is answered like that of any other attempt
AfterExceptionNoExit(fb, att, retries) == None

\* the except branch, `fb` being get_fallback_category(title): the value
\* returned, or None when the loop goes on to the next attempt
AfterException(fb, att, retries) ==
    IF att = retries - 1
    THEN <<fb[1], fb[2], FALSE, att + 1>>
    ELSE None

\* a variant of the loop body that reports the loop variable itself as
\* attempts_used
AttemptResultZeroBased(title, outcome, att, retries) ==
    LET r == IF outcome = Raises
             THEN AfterException(FallbackOf(title), att, retries)
             ELSE AfterResponse(ParsedResponse(outcome, title), att, retries)
    IN  IF r = None THEN None ELSE <<r[1], r[2], r[3], att>>

\* a variant of the loop body that answers a raised last attempt the way
\* get_openai_categories does, with ("Unknown", "Unknown")
AttemptResultUnknown(title, outcome, att, retries) ==
    IF outcome = Raises
    THEN AfterException(<<"Unknown", "Unknown">>, att, retries)
    ELSE AfterResponse(ParsedResponse(outcome, title), att, retries)

\* One pass of the loop body once the awaited call has ended with `outcome`:
\* the value returned, or None when the loop goes on to the next attempt.
\* The value is <<category, subcategory, is_valid, attempts_used>>.
AttemptResult(title, outcome, att, retries) ==
    IF outcome = Raises
    THEN AfterException(FallbackOf(title), att, retries)
    ELSE AfterResponse(ParsedResponse(outcome, title), att, retries)

\* the coroutine issues the request of the current attempt and awaits it
RobustRequest(i) ==
    /\ pipeline = "robust"
    /\ phase = "running"
    /\ task_pc[i] = "ready"
    /\ attempt[i] < max_retries
    /\ task_pc' = [task_pc EXCEPT ![i] = "awaiting"]
    /\ calls_issued' = [calls_issued EXCEPT ![i] = @ + 1]
    /\ UNCHANGED <<pipeline, titles, batch_size, batch_start, main_pc, task_result,
                   done_order, results, last_outcome, robustVars>>
    /\ UNCHANGED <<limitedVars, optimizedVars, supportVars>>

\* the awaited call ends: the attempt returns a value or the loop sleeps and
\* goes on
RobustRespond(i, outcome) ==
    /\ pipeline = "robust"
    /\ phase = "running"
    /\ task_pc[i] = "awaiting"
    /\ last_outcome' = [last_outcome EXCEPT ![i] = outcome]
    /\ all_raised' = (all_raised /\ outcome = Raises)
    /\ LET r == AttemptResult(titles[i], outcome, attempt[i], max_retries)
       IN  IF r # None
           THEN /\ task_pc' = [task_pc EXCEPT ![i] = "returned"]
                /\ task_result' = [task_result EXCEPT ![i] = r]
                /\ done_order' = Append(done_order, i)
                /\ UNCHANGED attempt
           ELSE /\ attempt' = [attempt EXCEPT ![i] = @ + 1]
                /\ task_pc' = [task_pc EXCEPT ![i] = "ready"]
                /\ UNCHANGED <<task_result, done_order>>
    /\ UNCHANGED <<pipeline, titles, batch_size, batch_start, main_pc, results,
                   calls_issued, max_retries>>
    /\ UNCHANGED <<limitedVars, optimizedVars, supportVars>>

(***************************************************************************)
(* RobustCategoryGenerator.process_batch_robust                            *)
(***************************************************************************)
\* a variant of gather that yields the values in the order the awaitables
\* finished (as asyncio.as_completed would)
gather_as_completed(batch) == [j \in 1..Len(batch) |-> task_result[done_order[j]]]

\* asyncio.gather(*tasks, return_exceptions=True): the values of the awaitables
\* in the order of the awaitables
gather(batch) == [j \in 1..Len(batch) |-> task_result[batch[j]]]

\* the indices of a batch, ascending
RECURSIVE Ascending(_)
Ascending(S) == IF S = {} THEN <<>> ELSE <<Min(S)>> \o Ascending(S \ {Min(S)})

\* the record for a coroutine that ended with an exception, `fb` being
\* get_fallback_category(title)
ExceptionRecord(title, fb) ==
    [title |-> title, category |-> fb[1], subcategory |-> fb[2],
     is_valid |-> FALSE, attempts_used |-> 0, method |-> "exception_fallback"]

\* the record appended for one title.  A coroutine that ended with an
\* exception would give the 'exception_fallback' record with attempts_used 0;
\* get_category_with_retries catches every exception of its body, so the value
\* is always the 4-tuple.
BatchRecord(title, result) ==
    IF result = Raises
    THEN ExceptionRecord(title, FallbackOf(title))
    ELSE [title |-> title, category |-> result[1], subcategory |-> result[2],
          is_valid |-> result[3], attempts_used |-> result[4], method |-> "openai_api"]

\* the loop takes the next batch and starts a coroutine per title
RobustStartBatch ==
    /\ pipeline = "robust"
    /\ phase = "running"
    /\ main_pc = "loop"
    /\ batch_start < Len(titles)
    /\ main_pc' = "gather"
    /\ task_pc' = [j \in Tasks |-> IF j \in BatchOf(batch_start) THEN "ready" ELSE task_pc[j]]
    /\ done_order' = <<>>
    /\ UNCHANGED <<pipeline, titles, batch_size, batch_start, task_result, results,
                   last_outcome, calls_issued, robustVars>>
    /\ UNCHANGED <<limitedVars, optimizedVars, supportVars>>

\* gather returns when every coroutine of the batch has ended; the results are
\* appended title by title
RobustCollectBatch ==
    /\ pipeline = "robust"
    /\ phase = "running"
    /\ main_pc = "gather"
    /\ \A j \in BatchOf(batch_start) : task_pc[j] = "returned"
    /\ LET batch == Ascending(BatchOf(batch_start))
           batch_results == gather(batch)
       IN  results' = results \o
               [j \in 1..Len(batch) |-> BatchRecord(titles[batch[j]], batch_results[j])]
    /\ batch_start' = batch_start + batch_size
    /\ main_pc' = "loop"
    /\ UNCHANGED <<pipeline, titles, batch_size, task_pc, task_result, done_order,
                   last_outcome, calls_issued, robustVars>>
    /\ UNCHANGED <<limitedVars, optimizedVars, supportVars>>

\* the loop is over: return results
RobustReturn ==
    /\ pipeline = "robust"
    /\ phase = "running"
    /\ main_pc = "loop"
    /\ batch_start >= Len(titles)
    /\ main_pc' = "returned"
    /\ UNCHANGED <<pipeline, titles, batch_size, batch_start, task_pc, task_result,
                   done_order, results, last_outcome, calls_issued, robustVars>>
    /\ UNCHANGED <<limitedVars, optimizedVars, supportVars>>

StartRobust ==
    /\ pipeline = "robust"
    /\ titles = SubSeq(test_titles, 1, NumTitles)
    /\ batch_size \in 1..MaxBatchSize
    /\ max_retries \in 1..RetryBound
    /\ batch_start = 0
    /\ main_pc = "loop"
    /\ task_pc = [j \in 1..NumTitles |-> "created"]
    /\ task_result = [j \in 1..NumTitles |-> NotReturned]
    /\ done_order = <<>>
    /\ results = <<>>
    /\ last_outcome = [j \in 1..NumTitles |-> None]
    /\ calls_issued = [j \in 1..NumTitles |-> 0]
    /\ attempt = [j \in 1..NumTitles |-> 0]
    /\ all_raised = TRUE
    /\ LimitedIdle
    /\ OptimizedIdle
    /\ ScoreIdle

InitRobust == StartRobust /\ NormIdle /\ EntryIdle /\ CacheIdle /\ ParseIdle

NextRobust ==
    \/ RobustStartBatch
    \/ \E i \in Tasks : RobustRequest(i)
    \/ \E i \in Tasks : \E outcome \in RobustOutcomes : RobustRespond(i, outcome)
    \/ RobustCollectBatch
    \/ RobustReturn

SpecRobust == InitRobust /\ [][NextRobust]_vars

(***************************************************************************)
(* The robust pipeline under a fair scheduler                              *)
(*   the event loop does not stop while a coroutine can run, and an        *)
(*   external call that was issued ends, with a response or an exception   *)
(***************************************************************************)
RobustFairness == WF_vars(NextRobust)

\* process_batch_robust with batches of one title or of two concurrent titles
InitRobustFair == InitRobust /\ batch_size \in {1, 2}

SpecRobustFair == InitRobustFair /\ [][NextRobust]_vars /\ RobustFairness

(***************************************************************************)
(* RateLimiter (src/src/category_gen.py, src/src/analyze/category_gen.py)  *)
(* Time is counted in tenths of a second.  A timestamp is kept as its age, *)
(* now - req_time; ages stop growing at Window, where a timestamp has left *)
(* the window for good.                                                    *)
(***************************************************************************)
\* the 60 seconds of  now - req_time < 60
Window == 600
\* the 0.1 second added to sleep_time
Buffer == 1

\* how far the clock may move in one step, besides to the end of a sleep
TickSteps == {150, 450}

\* [req_time for req_time in self.requests if now - req_time < 60]
Prune(reqs) == SelectSeq(reqs, LAMBDA age : age < Window)

\* a variant of the limit test that is off by one
LimitReachedOffByOne(reqs) == Len(reqs) > rpm

\* len(self.requests) >= self.max_requests_per_minute
LimitReached(reqs) == Len(reqs) >= rpm

\* sleep_time = 60 - (now - self.requests[0]) + 0.1
SleepTime(reqs) == Window - reqs[1] + Buffer

\* self.requests.append(now), and the record of the admission
Admit(reqs) ==
    /\ requests' = Append(reqs, 0)
    /\ admits' = Append(admits, 0)

(***************************************************************************)
(* get_openai_categories and generate_categories                           *)
(***************************************************************************)
\* message contents the service may answer with
JsonFootwear == "{\"category\": \"Footwear\", \"subcategory\": \"Running Shoes\"}"
JsonElectronics == "{\"category\": \"Electronics\", \"subcategory\": \"Smartphones\"}"
JsonNoSubcategory == "{\"category\": \"Beauty\"}"
NotJson == "Footwear|Running Shoes"

LimitedOutcomes == {JsonFootwear, JsonElectronics, JsonNoSubcategory, NotJson, Raises}

\* json.loads raises JSONDecodeError on a text that is no JSON document
IsJson(text) == text \in {JsonFootwear, JsonElectronics, JsonNoSubcategory}

\* json.loads(text) for the JSON documents of the model
json_loads(text) ==
    CASE text = JsonFootwear -> [category |-> "Footwear", subcategory |-> "Running Shoes"]
      [] text = JsonElectronics -> [category |-> "Electronics", subcategory |-> "Smartphones"]
      [] text = JsonNoSubcategory -> [category |-> "Beauty"]

\* dict.get(key, default)
DictGet(d, key, default) == IF key \in DOMAIN d THEN d[key] ELSE default

\* a variant of get_openai_categories that hands on a text that is no JSON
\* document as the category
get_openai_categories_raw_text(outcome) ==
    IF outcome = Raises THEN <<"Unknown", "Unknown">>
    ELSE IF ~IsJson(outcome) THEN <<outcome, "Unknown">>
    ELSE LET categorization == json_loads(outcome)
         IN  <<DictGet(categorization, "category", "Unknown"),
               DictGet(categorization, "subcategory", "Unknown")>>

\* get_openai_categories once the awaited call has ended with `outcome`: both
\* except clauses return ("Unknown", "Unknown")
get_openai_categories(outcome) ==
    IF outcome = Raises THEN <<"Unknown", "Unknown">>
    ELSE IF ~IsJson(outcome) THEN <<"Unknown", "Unknown">>
    ELSE LET categorization == json_loads(outcome)
         IN  <<DictGet(categorization, "category", "Unknown"),
               DictGet(categorization, "subcategory", "Unknown")>>

\* categorize_with_limit once the limiter has admitted the call and the call
\* has ended with `outcome`: an exception that leaves get_openai_categories is
\* caught here and gives ("Unknown", "Unknown") too
categorize_with_limit(outcome) ==
    LET result == get_openai_categories(outcome)
    IN  IF result = Raises THEN <<"Unknown", "Unknown">> ELSE result

\* a missing title of the data frame (NaN)
NaN == "<NaN>"

\* normalize_titles (src/src/analyze/category_gen.py)
normalize_titles(column) ==
    [k \in 1..Len(column) |->
        IF column[k] = NaN THEN "unknown product" ELSE Lower(Strip(column[k]))]

\* a variant without the semaphore
PermitAlwaysAvailable == TRUE

\* semaphore.acquire() does not block
PermitAvailable == permits > 0

\* the tasks whose external call is outstanding
Outstanding == {j \in Tasks : task_pc[j] = "awaiting"}

\* the loop takes the next batch; gather starts its coroutines
LimitedStartBatch ==
    /\ pipeline = "limited"
    /\ phase = "running"
    /\ main_pc = "loop"
    /\ batch_start < Len(titles)
    /\ main_pc' = "gather"
    /\ task_pc' = [j \in Tasks |->
                      IF j \in BatchOf(batch_start) THEN "want_permit" ELSE task_pc[j]]
    /\ done_order' = <<>>
    /\ UNCHANGED <<pipeline, titles, batch_size, batch_start, task_result, results,
                   last_outcome, calls_issued, robustVars, limitedVars>>
    /\ UNCHANGED <<optimizedVars, supportVars>>

\* async with semaphore: enter
AcquirePermit(i) ==
    /\ pipeline = "limited"
    /\ phase = "running"
    /\ task_pc[i] = "want_permit"
    /\ PermitAvailable
    /\ permits' = permits - 1
    /\ task_pc' = [task_pc EXCEPT ![i] = "want_lock"]
    /\ UNCHANGED <<pipeline, titles, batch_size, batch_start, main_pc, task_result,
                   done_order, results, last_outcome, calls_issued, robustVars,
                   rpm, concurrent, lock_holder, requests, admits, sleep_left>>
    /\ UNCHANGED <<optimizedVars, supportVars>>

\* a limiter that does not give up its lock after an admission without sleep
EnterLimiterKeepsLock(i) ==
    /\ pipeline = "limited"
    /\ phase = "running"
    /\ task_pc[i] = "want_lock"
    /\ lock_holder = 0
    /\ LET pruned == Prune(requests)
       IN  IF LimitReached(pruned) /\ SleepTime(pruned) > 0
           THEN /\ requests' = pruned
                /\ sleep_left' = SleepTime(pruned)
                /\ lock_holder' = i
                /\ task_pc' = [task_pc EXCEPT ![i] = "limiter_sleep"]
                /\ UNCHANGED <<admits, calls_issued>>
           ELSE /\ Admit(pruned)
                /\ lock_holder' = i
                /\ task_pc' = [task_pc EXCEPT ![i] = "awaiting"]
                /\ calls_issued' = [calls_issued EXCEPT ![i] = @ + 1]
                /\ UNCHANGED sleep_left
    /\ UNCHANGED <<pipeline, titles, batch_size, batch_start, main_pc, task_result,
                   done_order, results, last_outcome, robustVars,
                   rpm, concurrent, permits>>
    /\ UNCHANGED <<optimizedVars, supportVars>>

\* a limiter that sleeps outside its lock: the lock is given up for the time
\* of the sleep
EnterLimiterSleepUnlocked(i) ==
    /\ pipeline = "limited"
    /\ phase = "running"
    /\ task_pc[i] = "want_lock"
    /\ lock_holder = 0
    /\ LET pruned == Prune(requests)
       IN  IF LimitReached(pruned) /\ SleepTime(pruned) > 0
           THEN /\ requests' = pruned
                /\ sleep_left' = SleepTime(pruned)
                /\ lock_holder' = 0
                /\ task_pc' = [task_pc EXCEPT ![i] = "limiter_sleep"]
                /\ UNCHANGED <<admits, calls_issued>>
           ELSE /\ Admit(pruned)
                /\ task_pc' = [task_pc EXCEPT ![i] = "awaiting"]
                /\ calls_issued' = [calls_issued EXCEPT ![i] = @ + 1]
                /\ UNCHANGED <<sleep_left, lock_holder>>
    /\ UNCHANGED <<pipeline, titles, batch_size, batch_start, main_pc, task_result,
                   done_order, results, last_outcome, robustVars,
                   rpm, concurrent, permits>>
    /\ UNCHANGED <<optimizedVars, supportVars>>

\* wait_if_needed up to its first suspension: take the lock, prune, and either
\* sleep inside the lock or append, leave the lock and issue the external call
EnterLimiter(i) ==
    /\ pipeline = "limited"
    /\ phase = "running"
    /\ task_pc[i] = "want_lock"
    /\ lock_holder = 0
    /\ LET pruned == Prune(requests)
       IN  IF LimitReached(pruned) /\ SleepTime(pruned) > 0
           THEN /\ requests' = pruned
                /\ sleep_left' = SleepTime(pruned)
                /\ lock_holder' = i
                /\ task_pc' = [task_pc EXCEPT ![i] = "limiter_sleep"]
                /\ UNCHANGED <<admits, calls_issued>>
           ELSE /\ Admit(pruned)
                /\ task_pc' = [task_pc EXCEPT ![i] = "awaiting"]
                /\ calls_issued' = [calls_issued EXCEPT ![i] = @ + 1]
                /\ UNCHANGED <<sleep_left, lock_holder>>
    /\ UNCHANGED <<pipeline, titles, batch_size, batch_start, main_pc, task_result,
                   done_order, results, last_outcome, robustVars,
                   rpm, concurrent, permits>>
    /\ UNCHANGED <<optimizedVars, supportVars>>

\* a limiter that is left only when the external call has ended: after the
\* sleep the call is issued with the lock still held
WakeLimiterInsideLock(i) ==
    /\ pipeline = "limited"
    /\ phase = "running"
    /\ task_pc[i] = "limiter_sleep"
    /\ sleep_left = 0
    /\ Admit(Prune(requests))
    /\ lock_holder' = i
    /\ task_pc' = [task_pc EXCEPT ![i] = "awaiting"]
    /\ calls_issued' = [calls_issued EXCEPT ![i] = @ + 1]
    /\ UNCHANGED <<pipeline, titles, batch_size, batch_start, main_pc, task_result,
                   done_order, results, last_outcome, robustVars,
                   rpm, concurrent, permits, sleep_left>>
    /\ UNCHANGED <<optimizedVars, supportVars>>

\* a limiter that does not look at the window again after its sleep
WakeLimiterNoPrune(i) ==
    /\ pipeline = "limited"
    /\ phase = "running"
    /\ task_pc[i] = "limiter_sleep"
    /\ sleep_left = 0
    /\ Admit(requests)
    /\ lock_holder' = 0
    /\ task_pc' = [task_pc EXCEPT ![i] = "awaiting"]
    /\ calls_issued' = [calls_issued EXCEPT ![i] = @ + 1]
    /\ UNCHANGED <<pipeline, titles, batch_size, batch_start, main_pc, task_result,
                   done_order, results, last_outcome, robustVars,
                   rpm, concurrent, permits, sleep_left>>
    /\ UNCHANGED <<optimizedVars, supportVars>>

\* wait_if_needed after its sleep: prune again, append, leave the lock and
\* issue the external call
WakeLimiter(i) ==
    /\ pipeline = "limited"
    /\ phase = "running"
    /\ task_pc[i] = "limiter_sleep"
    /\ sleep_left = 0
    /\ Admit(Prune(requests))
    /\ lock_holder' = 0
    /\ task_pc' = [task_pc EXCEPT ![i] = "awaiting"]
    /\ calls_issued' = [calls_issued EXCEPT ![i] = @ + 1]
    /\ UNCHANGED <<pipeline, titles, batch_size, batch_start, main_pc, task_result,
                   done_order, results, last_outcome, robustVars,
                   rpm, concurrent, permits, sleep_left>>
    /\ UNCHANGED <<optimizedVars, supportVars>>

\* a task that calls the service a second time after a call that raised
LimitedRespondRetriesOnce(i, outcome) ==
    /\ pipeline = "limited"
    /\ phase = "running"
    /\ task_pc[i] = "awaiting"
    /\ last_outcome' = [last_outcome EXCEPT ![i] = outcome]
    /\ IF outcome = Raises /\ calls_issued[i] < 2
       THEN /\ task_pc' = [task_pc EXCEPT ![i] = "want_lock"]
            /\ UNCHANGED <<task_result, done_order, permits>>
       ELSE /\ task_result' = [task_result EXCEPT ![i] = categorize_with_limit(outcome)]
            /\ task_pc' = [task_pc EXCEPT ![i] = "returned"]
            /\ done_order' = Append(done_order, i)
            /\ permits' = permits + 1
    /\ UNCHANGED <<pipeline, titles, batch_size, batch_start, main_pc, results,
                   calls_issued, robustVars,
                   rpm, concurrent, lock_holder, requests, admits, sleep_left>>
    /\ UNCHANGED <<optimizedVars, supportVars>>

\* the external call ends; categorize_with_limit returns and the semaphore is
\* released on the way out of  async with
LimitedRespond(i, outcome) ==
    /\ pipeline = "limited"
    /\ phase = "running"
    /\ task_pc[i] = "awaiting"
    /\ last_outcome' = [last_outcome EXCEPT ![i] = outcome]
    /\ task_result' = [task_result EXCEPT ![i] = categorize_with_limit(outcome)]
    /\ task_pc' = [task_pc EXCEPT ![i] = "returned"]
    /\ done_order' = Append(done_order, i)
    /\ permits' = permits + 1
    /\ UNCHANGED <<pipeline, titles, batch_size, batch_start, main_pc, results,
                   calls_issued, robustVars,
                   rpm, concurrent, lock_holder, requests, admits, sleep_left>>
    /\ UNCHANGED <<optimizedVars, supportVars>>

\* gather returns when every coroutine of the batch has ended:
\* all_results.extend(batch_results)
LimitedCollectBatch ==
    /\ pipeline = "limited"
    /\ phase = "running"
    /\ main_pc = "gather"
    /\ \A j \in BatchOf(batch_start) : task_pc[j] = "returned"
    /\ results' = results \o gather(Ascending(BatchOf(batch_start)))
    /\ batch_start' = batch_start + batch_size
    /\ main_pc' = "loop"
    /\ UNCHANGED <<pipeline, titles, batch_size, task_pc, task_result, done_order,
                   last_outcome, calls_issued, robustVars, limitedVars>>
    /\ UNCHANGED <<optimizedVars, supportVars>>

\* one pass of the loop over all_results
ExtractPair(result) ==
    IF result = Raises THEN <<"Unknown", "Unknown">>
    ELSE IF Len(result) = 2 THEN <<result[1], result[2]>>
    ELSE <<"Unknown", "Unknown">>

\* the batch loop is over: the category and subcategory columns are built from
\* all_results and the data frame is returned
LimitedReturn ==
    /\ pipeline = "limited"
    /\ phase = "running"
    /\ main_pc = "loop"
    /\ batch_start >= Len(titles)
    /\ results' = [k \in 1..Len(results) |-> ExtractPair(results[k])]
    /\ main_pc' = "returned"
    /\ UNCHANGED <<pipeline, titles, batch_size, batch_start, task_pc, task_result,
                   done_order, last_outcome, calls_issued, robustVars, limitedVars>>
    /\ UNCHANGED <<optimizedVars, supportVars>>

\* the clock moves on by d
Tick(d) ==
    /\ pipeline = "limited"
    /\ phase = "running"
    /\ main_pc # "returned"
    /\ d > 0
    /\ requests' = [k \in 1..Len(requests) |->
                       IF requests[k] + d < Window THEN requests[k] + d ELSE Window]
    /\ admits' = SelectSeq([k \in 1..Len(admits) |-> admits[k] + d],
                           LAMBDA age : age < Window)
    /\ sleep_left' = IF sleep_left > d THEN sleep_left - d ELSE 0
    /\ UNCHANGED <<pipeline, titles, batch_size, batch_start, main_pc, task_pc,
                   task_result, done_order, results, last_outcome, calls_issued,
                   robustVars, rpm, concurrent, permits, lock_holder>>
    /\ UNCHANGED <<optimizedVars, supportVars>>

StartLimited ==
    /\ pipeline = "limited"
    /\ titles = normalize_titles(SubSeq(test_titles, 1, NumTitles))
    /\ batch_size \in 1..MaxBatchSize
    /\ rpm \in 1..MaxRpm
    /\ concurrent \in 1..MaxConcurrent
    /\ permits = concurrent
    /\ lock_holder = 0
    /\ requests = <<>>
    /\ admits = <<>>
    /\ sleep_left = 0
    /\ batch_start = 0
    /\ main_pc = "loop"
    /\ task_pc = [j \in 1..NumTitles |-> "created"]
    /\ task_result = [j \in 1..NumTitles |-> NotReturned]
    /\ done_order = <<>>
    /\ results = <<>>
    /\ last_outcome = [j \in 1..NumTitles |-> None]
    /\ calls_issued = [j \in 1..NumTitles |-> 0]
    /\ RobustIdle
    /\ OptimizedIdle
    /\ ScoreIdle

InitLimited == StartLimited /\ NormIdle /\ EntryIdle /\ CacheIdle /\ ParseIdle

NextLimited ==
    \/ LimitedStartBatch
    \/ \E i \in Tasks : AcquirePermit(i)
    \/ \E i \in Tasks : EnterLimiter(i)
    \/ \E i \in Tasks : WakeLimiter(i)
    \/ \E i \in Tasks : \E outcome \in LimitedOutcomes : LimitedRespond(i, outcome)
    \/ LimitedCollectBatch
    \/ LimitedReturn
    \/ \E d \in TickSteps \cup {sleep_left} : Tick(d)

SpecLimited == InitLimited /\ [][NextLimited]_vars

\* the clock moves
AdvanceTime == \E d \in TickSteps \cup {sleep_left} : Tick(d)

\* time advances, and a caller that can take the lock or end its sleep does so
LimitedFairness ==
    /\ WF_vars(AdvanceTime)
    /\ \A i \in 1..NumTitles : WF_vars(EnterLimiter(i) \/ WakeLimiter(i))

\* the runs in which the tasks of a batch all reach the limiter together
InitLimitedFair ==
    /\ InitLimited
    /\ batch_size = MaxBatchSize
    /\ concurrent = MaxConcurrent

SpecLimitedFair == InitLimitedFair /\ [][NextLimited]_vars /\ LimitedFairness

(***************************************************************************)
(* OptimizedCategoryGenerator (src/src/ai_optimization.py)                 *)
(***************************************************************************)
\* titles of the data frame: raw, as process_dataframe_optimized passes them
OptTitles ==
    {"Nike Air Max Running Shoes", "  NIKE air max running shoes ",
     "Vintage Lamp", "vintage lamp ", "Retro Desk Lamp", "Lamp With Speaker",
     "Camera Phone Jacket"}

\* a variant of the digest over the raw title
TitleDigestRaw(title) == title

\* get_title_hash: hashlib.md5(title.lower().strip().encode()).hexdigest().
\* MD5 is taken to be free of collisions on the titles of a run, so the digest
\* is represented by the text that is digested.
TitleDigest(title) == Strip(Lower(title))

\* the digests of the titles of the model (a table, evaluated once)
title_hashes == [t \in OptTitles |-> TitleDigest(t)]

get_title_hash(title) == title_hashes[title]

\* get_cached_category: the row's pair, or None
get_cached_category(title) ==
    LET title_hash == get_title_hash(title)
    IN  IF title_hash \in DOMAIN cache_db
        THEN <<cache_db[title_hash].category, cache_db[title_hash].subcategory>>
        ELSE None

\* a cache that keeps the latest row only
CacheCategoryLatestOnly(db, title, category, subcategory, confidence) ==
    LET title_hash == get_title_hash(title)
    IN  [h \in {title_hash} |->
            [title |-> title, category |-> category, subcategory |-> subcategory,
             confidence |-> confidence]]

\* cache_category: INSERT OR REPLACE of the row under the title's hash; the
\* confidence is kept in tenths
CacheCategory(db, title, category, subcategory, confidence) ==
    LET title_hash == get_title_hash(title)
    IN  [h \in DOMAIN db \cup {title_hash} |->
            IF h = title_hash
            THEN [title |-> title, category |-> category, subcategory |-> subcategory,
                  confidence |-> confidence]
            ELSE db[h]]

\* np.dot and the square of np.linalg.norm, on integer vectors
Dot(a, b) == a[1] * b[1] + a[2] * b[2] + a[3] * b[3]
NormSq(a) == Dot(a, a)

\* the default of the parameter threshold, 0.85, in hundredths
SimilarityThreshold == 85

\* similarity >= threshold, for similarity = dot(a, b) / (norm(a) * norm(b))
SimilarityAtLeast(a, b, hundredths) ==
    /\ Dot(a, b) >= 0
    /\ 10000 * Dot(a, b) * Dot(a, b) >= hundredths * hundredths * NormSq(a) * NormSq(b)

\* a search that keeps the first entry that reaches the threshold
MoreSimilarNever(a, b1, b2) == FALSE

\* similarity(a, b1) > similarity(a, b2), for embeddings without negative
\* components
MoreSimilar(a, b1, b2) ==
    Dot(a, b1) * Dot(a, b1) * NormSq(b2) > Dot(a, b2) * Dot(a, b2) * NormSq(b1)

\* the loop of find_similar_category over self.category_cache.items(): the
\* index of the entry held in best_category after entry i, 0 for None
RECURSIVE BestSimilar(_, _, _)
BestSimilar(title_embedding, i, best) ==
    IF i > Len(category_cache) THEN best
    ELSE LET embedding == category_cache[i].embedding
             better == /\ SimilarityAtLeast(title_embedding, embedding, SimilarityThreshold)
                       /\ \/ best = 0
                          \/ MoreSimilar(title_embedding, embedding,
                                         category_cache[best].embedding)
         IN  BestSimilar(title_embedding, i + 1, IF better THEN i ELSE best)

\* find_similar_category: the pair of the most similar stored title whose
\* similarity reaches the threshold, or None
find_similar_category(title) ==
    IF category_cache = <<>> THEN None
    ELSE LET best == BestSimilar(encode[title], 1, 0)
         IN  IF best = 0 THEN None
             ELSE <<category_cache[best].category, category_cache[best].subcategory>>

\* the three keyword dictionaries of rule_based_categorization, in the order
\* they are searched
rule_keywords ==
    << <<"phone", "Electronics", "Mobile Phones">>, <<"tv", "Electronics", "Televisions">>,
       <<"laptop", "Electronics", "Computers">>, <<"headphones", "Electronics", "Audio">>,
       <<"speaker", "Electronics", "Audio">>, <<"camera", "Electronics", "Cameras">>,
       <<"watch", "Electronics", "Wearables">>, <<"tablet", "Electronics", "Computers">>,
       <<"shirt", "Clothing", "Shirts">>, <<"t-shirt", "Clothing", "T-Shirts">>,
       <<"dress", "Clothing", "Dresses">>, <<"jeans", "Clothing", "Jeans">>,
       <<"shoes", "Footwear", "Shoes">>, <<"boots", "Footwear", "Boots">>,
       <<"sneakers", "Footwear", "Sneakers">>, <<"jacket", "Clothing", "Outerwear">>,
       <<"coat", "Clothing", "Outerwear">>,
       <<"perfume", "Beauty", "Fragrances">>, <<"makeup", "Beauty", "Makeup">>,
       <<"lipstick", "Beauty", "Makeup">>, <<"foundation", "Beauty", "Makeup">>,
       <<"shampoo", "Beauty", "Hair Care">>, <<"moisturizer", "Beauty", "Skincare">>,
       <<"serum", "Beauty", "Skincare">> >>

\* a rule table in which the last keyword found decides
RuleBasedLastWins(title) ==
    LET title_lower == Lower(title)
        hits == {i \in 1..Len(rule_keywords) : Contains(title_lower, rule_keywords[i][1])}
        last == CHOOSE i \in hits : \A j \in hits : j <= i
    IN  IF hits = {} THEN None
        ELSE <<rule_keywords[last][2], rule_keywords[last][3]>>

\* rule_based_categorization: the pair of the first keyword found in the
\* lower-cased title, or None
RuleBased(title) ==
    LET title_lower == Lower(title)
        hits == {i \in 1..Len(rule_keywords) : Contains(title_lower, rule_keywords[i][1])}
    IN  IF hits = {} THEN None
        ELSE <<rule_keywords[Min(hits)][2], rule_keywords[Min(hits)][3]>>

\* rule_based_categorization on the titles of the model (a table, evaluated
\* once)
rule_table == [t \in OptTitles |-> RuleBased(t)]

rule_based_categorization(title) == rule_table[title]

\* positions of "|" in a text
PipePositions(text) == {k \in 1..Len(text) : CharAt(text, k) = "|"}

\* get_openai_category_async once the awaited call has ended with `outcome`
get_openai_category_async(outcome) ==
    IF outcome = Raises THEN <<"Unknown", "Unknown">>
    ELSE LET categories == Strip(outcome)
             pipes == PipePositions(categories)
         IN  IF pipes # {}
             THEN LET first == Min(pipes)
                      rest == pipes \ {first}
                      second == IF rest = {} THEN Len(categories) + 1 ELSE Min(rest)
                  IN  <<Strip(SubSeq(categories, 1, first - 1)),
                        Strip(SubSeq(categories, first + 1, second - 1))>>
             ELSE <<categories, "Unspecified">>

\* a generator that keeps no embedding of what the service answered
StoreNoEmbedding(index, title, category, subcategory, embedding) == index

\* self.category_cache[title] = (category, subcategory, embedding): a new key
\* goes to the end, a known key keeps its place
StoreEmbedding(index, title, category, subcategory, embedding) ==
    LET entry == [title |-> title, category |-> category, subcategory |-> subcategory,
                  embedding |-> embedding]
    IN  IF \E k \in 1..Len(index) : index[k].title = title
        THEN [k \in 1..Len(index) |-> IF index[k].title = title THEN entry ELSE index[k]]
        ELSE Append(index, entry)

\* the tiers of get_category_with_optimizations, in the order of the code
TierOrder == <<"exact_cache", "similarity_cache", "rule_based", "openai_api">>

\* a variant of the tier order with the keyword rules before the similarity
\* search
AnsweringTierRulesFirst(title) ==
    IF get_cached_category(title) # None THEN 1
    ELSE IF rule_based_categorization(title) # None THEN 3
    ELSE IF find_similar_category(title) # None THEN 2
    ELSE 4

\* the tier that answers a lookup of `title` in the current state
AnsweringTier(title) ==
    IF get_cached_category(title) # None THEN 1
    ELSE IF find_similar_category(title) # None THEN 2
    ELSE IF rule_based_categorization(title) # None THEN 3
    ELSE 4

\* sentence models: one that puts the titles far apart, one that ignores
\* case and blanks and puts the lamps close together, one that puts two
\* lamps apart and a third lamp close to both
EmbeddingModels ==
    { [t \in OptTitles |->
          CASE t = "Nike Air Max Running Shoes" -> <<1, 0, 0>>
            [] t = "  NIKE air max running shoes " -> <<0, 1, 0>>
            [] t = "Vintage Lamp" -> <<0, 0, 1>>
            [] t = "vintage lamp " -> <<1, 1, 0>>
            [] t = "Retro Desk Lamp" -> <<0, 1, 1>>
            [] t = "Lamp With Speaker" -> <<1, 0, 1>>
            [] t = "Camera Phone Jacket" -> <<1, 1, 1>>],
      [t \in OptTitles |->
          CASE t = "Nike Air Max Running Shoes" -> <<1, 0, 0>>
            [] t = "  NIKE air max running shoes " -> <<1, 0, 0>>
            [] t = "Vintage Lamp" -> <<0, 1, 3>>
            [] t = "vintage lamp " -> <<0, 1, 3>>
            [] t = "Retro Desk Lamp" -> <<0, 2, 3>>
            [] t = "Lamp With Speaker" -> <<0, 1, 2>>
            [] t = "Camera Phone Jacket" -> <<1, 0, 1>>],
      [t \in OptTitles |->
          CASE t = "Nike Air Max Running Shoes" -> <<1, 0, 0>>
            [] t = "  NIKE air max running shoes " -> <<1, 0, 0>>
            [] t = "Vintage Lamp" -> <<0, 1, 3>>
            [] t = "vintage lamp " -> <<0, 1, 3>>
            [] t = "Retro Desk Lamp" -> <<0, 3, 2>>
            [] t = "Lamp With Speaker" -> <<0, 2, 3>>
            [] t = "Camera Phone Jacket" -> <<1, 0, 1>>] }

\* contents the service may answer with to get_openai_category_async
OptOutcomes == {"Home & Garden|Lighting", "Furniture", Raises}

\* a lookup that writes the pair it found in the exact cache back to the
\* table, as a pair of full confidence
GetCategoryWithOptimizationsRefreshing(title, outcome) ==
    LET tier == AnsweringTier(title)
        answer ==
            CASE tier = 1 -> get_cached_category(title)
              [] tier = 2 -> find_similar_category(title)
              [] tier = 3 -> rule_based_categorization(title)
              [] tier = 4 -> get_openai_category_async(outcome)
    IN  /\ cache_db' =
              CASE tier = 1 -> CacheCategory(cache_db, title, answer[1], answer[2], 10)
                [] tier = 2 -> CacheCategory(cache_db, title, answer[1], answer[2], 8)
                [] tier = 3 -> CacheCategory(cache_db, title, answer[1], answer[2], 6)
                [] tier = 4 -> CacheCategory(cache_db, title, answer[1], answer[2], 10)
        /\ category_cache' =
              IF tier = 4
              THEN StoreEmbedding(category_cache, title, answer[1], answer[2], encode[title])
              ELSE category_cache
        /\ history' = Append(history,
              [title |-> title, category |-> answer[1], subcategory |-> answer[2],
               method |-> TierOrder[tier],
               consulted |-> SubSeq(TierOrder, 1, tier),
               api_called |-> (tier = 4),
               raised |-> (tier = 4 /\ outcome = Raises)])

\* get_category_with_optimizations(title), the whole call; `outcome` is how the
\* external call ends if the call is made
GetCategoryWithOptimizations(title, outcome) ==
    LET tier == AnsweringTier(title)
        answer ==
            CASE tier = 1 -> get_cached_category(title)
              [] tier = 2 -> find_similar_category(title)
              [] tier = 3 -> rule_based_categorization(title)
              [] tier = 4 -> get_openai_category_async(outcome)
    IN  /\ cache_db' =
              CASE tier = 1 -> cache_db
                [] tier = 2 -> CacheCategory(cache_db, title, answer[1], answer[2], 8)
                [] tier = 3 -> CacheCategory(cache_db, title, answer[1], answer[2], 6)
                [] tier = 4 -> CacheCategory(cache_db, title, answer[1], answer[2], 10)
        /\ category_cache' =
              IF tier = 4
              THEN StoreEmbedding(category_cache, title, answer[1], answer[2], encode[title])
              ELSE category_cache
        /\ history' = Append(history,
              [title |-> title, category |-> answer[1], subcategory |-> answer[2],
               method |-> TierOrder[tier],
               consulted |-> SubSeq(TierOrder, 1, tier),
               api_called |-> (tier = 4),
               raised |-> (tier = 4 /\ outcome = Raises)])

OptLookup(title, outcome) ==
    /\ pipeline = "optimized"
    /\ phase = "running"
    /\ Len(history) < MaxLookups
    /\ GetCategoryWithOptimizations(title, outcome)
    /\ UNCHANGED <<pipeline, batchVars, robustVars, limitedVars, encode, supportVars>>

StartOptimized ==
    /\ pipeline = "optimized"
    /\ cache_db = <<>>
    /\ category_cache = <<>>
    /\ encode \in EmbeddingModels
    /\ history = <<>>
    /\ titles = <<>>
    /\ batch_size = 0
    /\ batch_start = 0
    /\ main_pc = "loop"
    /\ task_pc = <<>>
    /\ task_result = <<>>
    /\ done_order = <<>>
    /\ results = <<>>
    /\ last_outcome = <<>>
    /\ calls_issued = <<>>
    /\ RobustIdle
    /\ LimitedIdle
    /\ ScoreIdle

InitOptimized == StartOptimized /\ NormIdle /\ EntryIdle /\ CacheIdle /\ ParseIdle

NextOptimized == \E title \in OptTitles : \E outcome \in OptOutcomes : OptLookup(title, outcome)

SpecOptimized == InitOptimized /\ [][NextOptimized]_vars

(***************************************************************************)
(* Both batch pipelines                                                    *)
(***************************************************************************)
InitBatch == InitRobust \/ InitLimited

NextBatch == NextRobust \/ NextLimited

SpecBatch == InitBatch /\ [][NextBatch]_vars

(***************************************************************************)
(* The cluster confidence estimators                                       *)
(*   calculate_confidence_scores of category_gen_robust and of             *)
(*   category_gen_optimized, calculate_clustering_confidence of            *)
(*   clustering_analysis.  A score is held in thousandths: 0.3 is 300.     *)
(***************************************************************************)
Estimators == {"category_gen_robust", "category_gen_optimized", "clustering_analysis"}

\* the label HDBSCAN gives a title outside every cluster
NoiseLabel == -1

\* df[df['cluster_label'] == cluster_label], as the set of its row numbers
cluster_products(frame, cluster_label) ==
    {j \in 1..Len(frame) : frame[j].cluster_label = cluster_label}

\* len(cluster_products[cluster_products['openai_category'] == product_category])
same_category_count(frame, k) ==
    Cardinality({j \in cluster_products(frame, frame[k].cluster_label) :
                    frame[j].openai_category = frame[k].openai_category})

\* len(cluster_products[cluster_products['openai_subcategory'] == product_subcategory])
same_subcategory_count(frame, k) ==
    Cardinality({j \in cluster_products(frame, frame[k].cluster_label) :
                    frame[j].openai_subcategory = frame[k].openai_subcategory})

\* an adjustment without the penalty for small clusters
size_multiplier_no_penalty(cluster_size) ==
    IF cluster_size >= 10 THEN 11 ELSE 10

\* the size adjustment, in tenths
size_multiplier(cluster_size) ==
    IF cluster_size >= 10 THEN 11
    ELSE IF cluster_size >= 5 THEN 10
    ELSE IF cluster_size >= 3 THEN 9
    ELSE 8

\* round(x, 3) of the score num / den thousandths: the nearest thousandth,
\* a tie to the even one
round3(num, den) ==
    LET q == num \div den
        r == num % den
    IN  IF 2 * r > den THEN q + 1
        ELSE IF 2 * r = den THEN q + (q % 2)
        ELSE q

\* the estimators without the cap: the score num / den is kept whatever it is
uncapped(num, den) == num

\* min(x, 1.0) of the score num / den thousandths, as a numerator over den
capped(num, den) == IF num > 1000 * den THEN 1000 * den ELSE num

\* (category_consistency * 0.6) + (subcategory_consistency * 0.4), times
\* ten times the cluster size
consistency(same_category, same_subcategory) == 6 * same_category + 4 * same_subcategory

\* base_confidence of the robust estimator, in tenths:
\* 0.9 if row.get('categorization_valid', True) else 0.6
robust_base_confidence(row) ==
    IF row.categorization_valid = "False" THEN 6 ELSE 9

\* a noise title scored as a title every estimator is sure of
noise_confidence_full(module, row) == 1000

\* the score of a noise title: base_confidence * 0.3 in the robust
\* estimator, 0.3 in the other two
noise_confidence(module, row) ==
    IF module = "category_gen_robust" THEN robust_base_confidence(row) * 30 ELSE 300

\* the scores of the robust estimator that fall exactly between two
\* thousandths, as <<base, same_category, same_subcategory, cluster_size>>,
\* whose double-precision value lies above the middle: round(x, 3) gives
\* the upper thousandth for these and the lower one for the other ties
float_ties_up ==
    {<<9, 1, 1, 4>>, <<9, 1, 2, 4>>, <<9, 1, 3, 4>>, <<6, 1, 4, 4>>, <<6, 3, 1, 4>>,
     <<9, 3, 3, 4>>, <<6, 3, 3, 4>>, <<9, 1, 3, 8>>, <<9, 1, 4, 8>>, <<9, 1, 5, 8>>,
     <<9, 1, 6, 8>>, <<9, 1, 7, 8>>, <<9, 3, 1, 8>>, <<9, 3, 2, 8>>, <<9, 3, 4, 8>>,
     <<6, 3, 6, 8>>, <<6, 3, 7, 8>>, <<9, 3, 8, 8>>, <<9, 5, 1, 8>>, <<6, 5, 3, 8>>,
     <<6, 5, 4, 8>>, <<9, 5, 5, 8>>, <<9, 5, 6, 8>>, <<6, 5, 6, 8>>, <<9, 5, 7, 8>>,
     <<9, 5, 8, 8>>, <<6, 7, 1, 8>>, <<9, 7, 2, 8>>, <<9, 7, 3, 8>>, <<6, 7, 3, 8>>,
     <<9, 7, 4, 8>>, <<9, 7, 5, 8>>, <<9, 7, 7, 8>>, <<6, 7, 8, 8>>}

\* round(x, 3) of a double: the nearest thousandth, a tie as the double falls
round3_double(num, den, up) ==
    IF 2 * (num % den) = den
    THEN (num \div den) + (IF up THEN 1 ELSE 0)
    ELSE round3(num, den)

\* round(min((base_confidence * 0.7) + (cluster_confidence * size_multiplier
\* * 0.3), 1.0), 3) of the robust estimator
robust_cluster_confidence(base, same_category, same_subcategory, cluster_size) ==
    round3_double(
        capped(base * 70 * cluster_size
                 + consistency(same_category, same_subcategory)
                     * size_multiplier(cluster_size) * 3,
               cluster_size),
        cluster_size,
        <<base, same_category, same_subcategory, cluster_size>> \in float_ties_up)

\* round(min(base_confidence * size_multiplier, 1.0), 3) of the other two
plain_cluster_confidence(cons, cluster_size) ==
    round3(capped(cons * size_multiplier(cluster_size) * 10, cluster_size), cluster_size)

\* the score of a title inside a cluster; 0.5 when the frame given to
\* calculate_clustering_confidence has no category columns
cluster_confidence(module, row, same_category, same_subcategory, cluster_size) ==
    IF module = "category_gen_robust"
    THEN robust_cluster_confidence(robust_base_confidence(row), same_category,
                                   same_subcategory, cluster_size)
    ELSE IF module = "clustering_analysis" /\ row.openai_category = None
    THEN 500
    ELSE plain_cluster_confidence(consistency(same_category, same_subcategory),
                                  cluster_size)

\* one iteration of the loop  for idx, row in df.iterrows()
row_confidence(module, frame, k) ==
    IF frame[k].cluster_label = NoiseLabel
    THEN noise_confidence(module, frame[k])
    ELSE cluster_confidence(module, frame[k],
                            same_category_count(frame, k),
                            same_subcategory_count(frame, k),
                            Cardinality(cluster_products(frame, frame[k].cluster_label)))

\* an assignment that also overrules the category of a title scored under 0.5
attach_and_relabel(frame, scores) ==
    [k \in 1..Len(frame) |->
        [frame[k] EXCEPT !.confidence_score = scores[k],
                         !.openai_category =
                             IF scores[k] < 500 THEN "Unknown" ELSE frame[k].openai_category]]

\* df['confidence_score'] = confidence_scores
attach_confidence(frame, scores) ==
    [k \in 1..Len(frame) |-> [frame[k] EXCEPT !.confidence_score = scores[k]]]

\* the frames the estimators are run on: `noise` titles outside every
\* cluster, then a cluster of `size` titles over `ncat` categories and `nsub`
\* subcategories (0: the frame has no category columns), then `extra`
\* titles in a second cluster
ValidityColumns == {"valid", "invalid", "mixed", "absent"}

categorization_valid_of(validity, k) ==
    IF validity = "absent" THEN None
    ELSE IF validity = "valid" \/ (validity = "mixed" /\ k % 2 = 0) THEN "True"
    ELSE "False"

Frame(noise, size, ncat, nsub, validity, extra) ==
    [k \in 1..(noise + size + extra) |->
        [cluster_label |-> IF k <= noise THEN NoiseLabel
                           ELSE IF k <= noise + size THEN 0 ELSE 1,
         openai_category |-> IF ncat = 0 THEN None
                             ELSE valid_categories[(k % ncat) + 1].category,
         openai_subcategory |-> IF ncat = 0 THEN None
                                ELSE Subcategories("Clothing")[(k % nsub) + 1],
         categorization_valid |-> categorization_valid_of(validity, k),
         confidence_score |-> None]]

Frames(module) ==
    {Frame(noise, size, ncat, nsub, validity, extra) :
        noise \in 0..1, size \in 1..MaxClusterSize, ncat \in 1..MaxClusterSize,
        nsub \in 1..MaxClusterSize,
        validity \in IF module = "category_gen_robust" THEN ValidityColumns ELSE {"absent"},
        extra \in 0..1}
    \cup IF module = "clustering_analysis"
         THEN {Frame(noise, size, 0, 0, "absent", 0) : noise \in 0..1, size \in 1..MaxClusterSize}
         ELSE {}

\* the loop body of the estimator, for the next row
ScoreRow ==
    /\ pipeline = "confidence"
    /\ score_pc = "scoring"
    /\ Len(confidence_scores) < Len(df)
    /\ confidence_scores' =
           Append(confidence_scores, row_confidence(estimator, df, Len(confidence_scores) + 1))
    /\ UNCHANGED <<pipeline, batchVars, robustVars, limitedVars, optimizedVars,
                   estimator, df, score_pc, entryVars, normVars, cacheVars, parseVars>>

\* return confidence_scores
ReturnScores ==
    /\ pipeline = "confidence"
    /\ score_pc = "scoring"
    /\ Len(confidence_scores) = Len(df)
    /\ score_pc' = "computed"
    /\ UNCHANGED <<pipeline, batchVars, robustVars, limitedVars, optimizedVars,
                   estimator, df, confidence_scores, entryVars, normVars, cacheVars, parseVars>>

\* the caller's  df['confidence_score'] = confidence_scores ;
\* calculate_clustering_confidence has no caller
AttachScores ==
    /\ pipeline = "confidence"
    /\ score_pc = "computed"
    /\ estimator # "clustering_analysis"
    /\ df' = attach_confidence(df, confidence_scores)
    /\ score_pc' = "attached"
    /\ UNCHANGED <<pipeline, batchVars, robustVars, limitedVars, optimizedVars,
                   estimator, confidence_scores, entryVars, normVars, cacheVars, parseVars>>

InitConfidence ==
    /\ pipeline = "confidence"
    /\ estimator \in Estimators
    /\ df \in Frames(estimator)
    /\ confidence_scores = <<>>
    /\ score_pc = "scoring"
    /\ BatchIdle
    /\ RobustIdle
    /\ LimitedIdle
    /\ OptimizedIdle
    /\ EntryIdle
    /\ NormIdle
    /\ CacheIdle /\ ParseIdle

NextConfidence ==
    \/ ScoreRow
    \/ ReturnScores
    \/ AttachScores

SpecConfidence == InitConfidence /\ [][NextConfidence]_vars

(***************************************************************************)
(* normalize_titles, run on its own                                        *)
(*   src/src/analyze/category_gen.py has the version that handles NaN;     *)
(*   src/src/category_gen.py, category_gen_robust.py and                   *)
(*   category_gen_optimized.py share the other version                     *)
(***************************************************************************)
Normalizers == {"analyze.category_gen", "category_gen"}

\* the values a cell of the title column may hold
TitleCells == {"  Nike AIR Max ", "lego set", "", NaN}

\* the columns normalize_titles is run on
TitleColumns ==
    UNION {[1..n -> TitleCells] : n \in 0..MaxColumn}

\* title.strip().lower()
strip_lower(title) == Lower(Strip(title))

\* one iteration of normalize_titles of src/src/analyze/category_gen.py
normalize_cell(title) ==
    IF title = NaN THEN "unknown product" ELSE strip_lower(title)

\* one element of the list comprehension of src/src/category_gen.py: a NaN
\* cell is a float, and float has no attribute strip
normalize_cell_plain(title) ==
    IF title = NaN THEN Raises ELSE strip_lower(title)

\* normalize_titles of src/src/category_gen.py as a whole
normalize_titles_plain(cells) ==
    IF \E k \in 1..Len(cells) : cells[k] = NaN
    THEN Raises
    ELSE [k \in 1..Len(cells) |-> strip_lower(cells[k])]

\* the next cell of the column is normalized and appended, or the
\* comprehension raises
AfterCell(cell_result) ==
    IF cell_result = Raises
    THEN /\ norm_pc' = "raised"
         /\ UNCHANGED normalized
    ELSE /\ normalized' = Append(normalized, cell_result)
         /\ UNCHANGED norm_pc

NormalizeCell ==
    /\ pipeline = "normalize"
    /\ norm_pc = "loop"
    /\ Len(normalized) < Len(title_column)
    /\ AfterCell(IF normalizer = "analyze.category_gen"
                 THEN normalize_cell(title_column[Len(normalized) + 1])
                 ELSE normalize_cell_plain(title_column[Len(normalized) + 1]))
    /\ UNCHANGED <<pipeline, batchVars, robustVars, limitedVars, optimizedVars,
                   scoreVars, entryVars, cacheVars, parseVars, title_column, normalizer>>

\* return product_titles
NormalizeReturn ==
    /\ pipeline = "normalize"
    /\ norm_pc = "loop"
    /\ Len(normalized) = Len(title_column)
    /\ norm_pc' = "returned"
    /\ UNCHANGED <<pipeline, batchVars, robustVars, limitedVars, optimizedVars,
                   scoreVars, entryVars, cacheVars, parseVars, title_column, normalizer, normalized>>

InitNormalize ==
    /\ pipeline = "normalize"
    /\ normalizer \in Normalizers
    /\ title_column \in TitleColumns
    /\ normalized = <<>>
    /\ norm_pc = "loop"
    /\ BatchIdle
    /\ RobustIdle
    /\ LimitedIdle
    /\ OptimizedIdle
    /\ ScoreIdle
    /\ EntryIdle
    /\ CacheIdle /\ ParseIdle

NextNormalize ==
    \/ NormalizeCell
    \/ NormalizeReturn

SpecNormalize == InitNormalize /\ [][NextNormalize]_vars

(***************************************************************************)
(* Starting the program: the import of the entry module with its check of  *)
(* OPENAI_API_KEY, then the call of the entry point                        *)
(***************************************************************************)
\* the modules a run starts from; backend_main imports generate_categories
\* from src.analyze.category_gen
EntryModules ==
    {"category_gen", "analyze.category_gen", "backend_main", "category_gen_robust",
     "category_gen_optimized"}

\* os.getenv('OPENAI_API_KEY'): None when unset, the value otherwise
KeyValues == {None, "", "sk-key"}

\* a start that goes on whatever the environment holds
key_unchecked(key) == TRUE

\* the module-level check passes:  not (not openai_api_key)
key_found(key) == key # None /\ key # ""

\* the pipeline the entry point of a module runs
pipeline_of(module) ==
    IF module = "category_gen_robust" THEN "robust"
    ELSE IF module = "category_gen_optimized" THEN "optimized"
    ELSE "limited"

\* the version of normalize_titles a module holds
normalizer_of(module) ==
    IF module \in {"analyze.category_gen", "backend_main"}
    THEN "analyze.category_gen"
    ELSE "category_gen"

\* the parameters in the signature of generate_categories(df, api_tier)
generate_categories_parameters == {"df", "api_tier"}

\* the keyword arguments of the call in each module:
\* generate_categories(df, api_tier, progress_callback=update_progress) in
\* backend/main.py, positional arguments elsewhere
call_keywords(module) ==
    IF module = "backend_main" THEN {"progress_callback"} ELSE {}

\* normalize_titles(df, 'Item Title'), the first step of every entry point
normalize_with(version, cells) ==
    IF version = "analyze.category_gen"
    THEN normalize_titles(cells)
    ELSE normalize_titles_plain(cells)

\* import of the entry module: load_dotenv, os.getenv, the check
ImportModule ==
    /\ phase = "startup"
    /\ phase' = IF key_found(api_key) THEN "loaded" ELSE "fatal"
    /\ UNCHANGED <<pipeline, batchVars, robustVars, limitedVars, optimizedVars,
                   scoreVars, normVars, cacheVars, parseVars, api_key, entry_module, progress_calls>>

\* the call of the entry point binds its arguments (a keyword that is no
\* parameter is a TypeError) and normalizes the titles
CallEntryPoint ==
    /\ phase = "loaded"
    /\ IF call_keywords(entry_module) \subseteq generate_categories_parameters
       THEN /\ phase' = "running"
            /\ normalized' = normalize_with(normalizer, title_column)
            /\ norm_pc' = "returned"
       ELSE /\ phase' = "type_error"
            /\ UNCHANGED <<normalized, norm_pc>>
    /\ UNCHANGED <<pipeline, batchVars, robustVars, limitedVars, optimizedVars,
                   scoreVars, cacheVars, parseVars, title_column, normalizer, api_key, entry_module,
                   progress_calls>>

InitEntry ==
    /\ phase = "startup"
    /\ api_key \in KeyValues
    /\ entry_module \in EntryModules
    /\ progress_calls = <<>>
    /\ title_column = SubSeq(test_titles, 1, NumTitles)
    /\ normalizer = normalizer_of(entry_module)
    /\ normalized = <<>>
    /\ norm_pc = "loop"
    /\ \/ pipeline_of(entry_module) = "robust" /\ StartRobust
       \/ pipeline_of(entry_module) = "limited" /\ StartLimited
       \/ pipeline_of(entry_module) = "optimized" /\ StartOptimized
    \* each module runs its pipeline under the one configuration it names,
    \* here one whose request limit is below the number of titles
    /\ batch_size \in {0, MaxBatchSize}
    /\ max_retries \in {0, RetryBound}
    /\ rpm \in {0, 1}
    /\ concurrent \in {0, MaxConcurrent}
    /\ CacheIdle /\ ParseIdle

NextEntry ==
    \/ ImportModule
    \/ CallEntryPoint
    \/ NextRobust
    \/ NextLimited
    \/ NextOptimized

SpecEntry == InitEntry /\ [][NextEntry]_vars

(***************************************************************************)
(* OptimizedCategoryGenerator.cache_category, called on its own            *)
(*   the table category_cache of setup_cache under any sequence of calls   *)
(*   of cache_category, also by callers that race.  A call computes the    *)
(*   hash of its title and then runs one INSERT OR REPLACE in a connection *)
(*   of its own; SQLite runs the statements of the connections one at a    *)
(*   time.                                                                 *)
(***************************************************************************)
\* the callers that may be inside cache_category at once
Writers == 1..MaxWriters

\* the arguments the callers pass
CacheTitles == {"Vintage Lamp", "vintage lamp ", "Retro Desk Lamp"}
CachePairs == {<<"Electronics", "Computers">>, <<"Unknown", "Unknown">>}
CacheConfidences == {6, 10}

\* (title_hash, title, category, subcategory, confidence), the parameters of
\* the statement
Statement(title, category, subcategory, confidence) ==
    [title_hash |-> get_title_hash(title), title |-> title, category |-> category,
     subcategory |-> subcategory, confidence |-> confidence]

\* the row a statement inserts at time t: created_at is not among the
\* columns named, so it takes DEFAULT CURRENT_TIMESTAMP
InsertedRow(stmt, t) ==
    [title_hash |-> stmt.title_hash, title |-> stmt.title, category |-> stmt.category,
     subcategory |-> stmt.subcategory, confidence |-> stmt.confidence, created_at |-> t]

\* INSERT OR IGNORE: a row whose title_hash is taken is not inserted
insert_or_ignore(table, row) ==
    IF \E i \in 1..Len(table) : table[i].title_hash = row.title_hash
    THEN table
    ELSE Append(table, row)

\* INSERT into a table without the primary key
insert_plain(table, row) == Append(table, row)

\* INSERT OR REPLACE on  title_hash TEXT PRIMARY KEY : the rows that hold the
\* new row's title_hash are deleted, then the new row is inserted
insert_or_replace(table, row) ==
    Append(SelectSeq(table, LAMBDA r : r.title_hash # row.title_hash), row)

\* cache_category up to its statement: title_hash = self.get_title_hash(title)
CacheCall(w, title, category, subcategory, confidence) ==
    /\ pipeline = "cache"
    /\ pending[w] = {}
    /\ Len(write_log) + Cardinality({v \in Writers : pending[v] # {}}) < MaxCalls
    /\ pending' = [pending EXCEPT ![w] =
                      {Statement(title, category, subcategory, confidence)}]
    /\ UNCHANGED <<category_cache_table, db_time, write_log>>
    /\ UNCHANGED <<pipeline, batchVars, robustVars, limitedVars, optimizedVars,
                   scoreVars, entryVars, normVars, parseVars>>

\* with sqlite3.connect(self.cache_db) as conn: conn.execute(...), committed
\* on leaving the block; the clock has stood still or moved on by a second
CacheExecute(w, t) ==
    /\ pipeline = "cache"
    /\ pending[w] # {}
    /\ t \in {db_time, db_time + 1}
    /\ LET stmt == CHOOSE s \in pending[w] : TRUE
       IN  /\ category_cache_table' =
                  insert_or_replace(category_cache_table, InsertedRow(stmt, t))
           /\ write_log' = Append(write_log, stmt)
    /\ db_time' = t
    /\ pending' = [pending EXCEPT ![w] = {}]
    /\ UNCHANGED <<pipeline, batchVars, robustVars, limitedVars, optimizedVars,
                   scoreVars, entryVars, normVars, parseVars>>

\* setup_cache has created the table, no caller is inside cache_category
InitCache ==
    /\ pipeline = "cache"
    /\ category_cache_table = <<>>
    /\ db_time = 0
    /\ pending = [w \in Writers |-> {}]
    /\ write_log = <<>>
    /\ ParseIdle
    /\ BatchIdle
    /\ RobustIdle
    /\ LimitedIdle
    /\ OptimizedIdle
    /\ ScoreIdle
    /\ EntryIdle
    /\ NormIdle

NextCache ==
    \/ \E w \in Writers : \E title \in CacheTitles : \E pair \in CachePairs :
           \E confidence \in CacheConfidences :
               CacheCall(w, title, pair[1], pair[2], confidence)
    \/ \E w \in Writers : \E t \in {db_time, db_time + 1} : CacheExecute(w, t)

SpecCache == InitCache /\ [][NextCache]_vars

(***************************************************************************)
(* RobustCategoryGenerator.parse_and_validate_response, step by step       *)
(*   one step per pass of the loop over `patterns`, one for what follows   *)
(*   the loop                                                              *)
(***************************************************************************)
\* response texts: those of the robust pipeline, and texts in which several
\* separators stand
ParseResponses ==
    RobustResponses \cup
        {"Gizmo|Widget - Footwear > Boots", "Footwear|Boots - Clothing > Tops",
         "Beauty: Makeup - Lipstick", "Clothing - Tops | Footwear",
         "Widget > Gizmo", "result: Footwear > Boots: Sandals"}

\* position of the parser after the loop and after the return
AfterLoop == Len(patterns) + 1
Returned == Len(patterns) + 2

\* one pass of  for pattern in patterns
ParseTryPattern ==
    /\ pipeline = "parse"
    /\ parse_pc \in 1..Len(patterns)
    /\ LET match == re_search(patterns[parse_pc], CleanResponse(parse_response))
           validated == IF match = <<>> THEN <<None, None>>
                        ELSE validate_and_correct_categories(match[1], match[2])
       IN  /\ parse_matched' =
                  IF match = <<>> THEN parse_matched
                  ELSE Append(parse_matched, patterns[parse_pc])
           /\ IF validated[1] # None /\ validated[2] # None
              THEN /\ parse_result' = <<validated[1], validated[2], TRUE>>
                   /\ parse_pc' = Returned
              ELSE /\ parse_result' = parse_result
                   /\ parse_pc' = parse_pc + 1
    /\ UNCHANGED <<parse_response, parse_title>>
    /\ UNCHANGED <<pipeline, batchVars, robustVars, limitedVars, optimizedVars,
                   scoreVars, entryVars, normVars, cacheVars>>

\* after the loop: extract_single_category, else get_fallback_category
ParseWithoutPattern ==
    /\ pipeline = "parse"
    /\ parse_pc = AfterLoop
    /\ LET single_category == extract_single_category(CleanResponse(parse_response))
       IN  parse_result' =
               IF single_category # None
               THEN <<single_category, Subcategories(single_category)[1], FALSE>>
               ELSE get_fallback_category(parse_title)
    /\ parse_pc' = Returned
    /\ UNCHANGED <<parse_response, parse_title, parse_matched>>
    /\ UNCHANGED <<pipeline, batchVars, robustVars, limitedVars, optimizedVars,
                   scoreVars, entryVars, normVars, cacheVars>>

InitParse ==
    /\ pipeline = "parse"
    /\ parse_response \in ParseResponses
    /\ parse_title \in {test_titles[k] : k \in 1..(NumTitles + 1)}
    /\ parse_pc = 1
    /\ parse_matched = <<>>
    /\ parse_result = <<>>
    /\ BatchIdle
    /\ RobustIdle
    /\ LimitedIdle
    /\ OptimizedIdle
    /\ ScoreIdle
    /\ EntryIdle
    /\ NormIdle
    /\ CacheIdle

NextParse ==
    \/ ParseTryPattern
    \/ ParseWithoutPattern

SpecParse == InitParse /\ [][NextParse]_vars

(***************************************************************************)
(* Properties                                                              *)
(***************************************************************************)
\* every pair the keyword fallback can give is registered (evaluated once)
FallbackPairsRegistered ==
    /\ \A i \in 1..Len(fallback_rules) :
           InTaxonomy(fallback_rules[i].pair[1], fallback_rules[i].pair[2])
    /\ \A k \in 1..Len(test_titles) :
           InTaxonomy(get_fallback_category(test_titles[k])[1],
                      get_fallback_category(test_titles[k])[2])

\* C1: whatever the service answered or however its calls failed, the pair a
\* coroutine of the robust pipeline returns for a title, and the pair of every
\* record process_batch_robust assembles, is a registered category with one of
\* that category's registered subcategories.
C1_ResultInTaxonomy ==
    pipeline = "robust" =>
        /\ \A i \in Tasks :
               task_result[i] # NotReturned => InTaxonomy(task_result[i][1], task_result[i][2])
        /\ \A k \in 1..Len(results) :
               InTaxonomy(results[k].category, results[k].subcategory)
        /\ FallbackPairsRegistered

\* the run has returned after one title's last answer named an unknown category
\* and the other's last call raised
C1_Witness ==
    /\ pipeline = "robust"
    /\ main_pc = "returned"
    /\ last_outcome[1] = "Gizmo|Thing"
    /\ last_outcome[2] = Raises
    /\ Len(results) = 2

\* C2: at no instant has wait_if_needed returned more than
\* max_requests_per_minute times within the trailing 60 seconds, whatever the
\* number of callers and the way their steps and the clock interleave.
C2_RateCeiling ==
    pipeline = "limited" => Len(admits) <= rpm

\* the window is full and a caller is held asleep inside the limiter
C2_Witness ==
    /\ pipeline = "limited"
    /\ Len(admits) = rpm
    /\ sleep_left > 0
    /\ \E i \in Tasks : task_pc[i] = "limiter_sleep" /\ lock_holder = i

\* the coroutines that hold a permit of the semaphore
PermitHolders == {j \in Tasks : task_pc[j] \in {"want_lock", "limiter_sleep", "awaiting"}}

\* C3: in generate_categories the number of outstanding external calls never
\* exceeds max_concurrent: every outstanding call holds a permit, the permits
\* held and the permits free always add up to max_concurrent, and a coroutine
\* that has returned -- with a parsed answer, an unparseable one or after a
\* raised call -- holds none.
C3_ConcurrencyCeiling ==
    pipeline = "limited" =>
        /\ Cardinality(Outstanding) <= concurrent
        /\ Outstanding \subseteq PermitHolders
        /\ permits >= 0
        /\ permits + Cardinality(PermitHolders) = concurrent

\* with one permit and both titles in one batch, the second call is outstanding
\* after the first call raised
C3_Witness ==
    /\ pipeline = "limited"
    /\ concurrent = 1
    /\ batch_size = 2
    /\ \E i, j \in Tasks :
           /\ task_pc[i] = "returned"
           /\ last_outcome[i] = Raises
           /\ task_pc[j] = "awaiting"

\* title.lower().strip() of the titles looked up (a table, evaluated once)
normalized_title == [t \in OptTitles |-> Strip(Lower(t))]

\* C4: when get_category_with_optimizations is called again for a title with
\* the same lower-cased, trimmed text as an earlier call, it returns the pair
\* the earlier call returned and makes no external call.
C4_RepeatLookupFromCache ==
    pipeline = "optimized" =>
        \A i, j \in 1..Len(history) :
            (i < j /\ normalized_title[history[i].title] = normalized_title[history[j].title])
                => /\ history[j].category = history[i].category
                   /\ history[j].subcategory = history[i].subcategory
                   /\ ~history[j].api_called

\* a title was answered by the external service and a differently written
\* title with the same normalized text was looked up afterwards
C4_Witness ==
    /\ pipeline = "optimized"
    /\ \E i, j \in 1..Len(history) :
           /\ i < j
           /\ history[i].title # history[j].title
           /\ normalized_title[history[i].title] = normalized_title[history[j].title]
           /\ history[i].api_called
           /\ history[j].method = "exact_cache"

\* C5: the attempts_used a coroutine of get_category_with_retries returns, and
\* the attempts_used of every record process_batch_robust assembles, is at
\* least 1 and at most max_retries.
C5_AttemptsWithinBounds ==
    pipeline = "robust" =>
        /\ \A i \in Tasks :
               task_result[i] # NotReturned => task_result[i][4] \in 1..max_retries
        /\ \A k \in 1..Len(results) : results[k].attempts_used \in 1..max_retries

\* one title was answered at the first attempt, the other used every attempt
C5_Witness ==
    /\ pipeline = "robust"
    /\ main_pc = "returned"
    /\ max_retries = RetryBound
    /\ results[1].attempts_used = 1
    /\ results[2].attempts_used = max_retries

\* the k-th element of results is the result of the k-th title's own coroutine
OwnResult(k) ==
    IF pipeline = "robust"
    THEN /\ results[k].title = titles[k]
         /\ <<results[k].category, results[k].subcategory, results[k].is_valid,
              results[k].attempts_used>> = task_result[k]
         /\ task_result[k] =
                AttemptResult(titles[k], last_outcome[k], results[k].attempts_used - 1,
                              max_retries)
    ELSE /\ results[k] = task_result[k]
         /\ results[k] = categorize_with_limit(last_outcome[k])

\* C6: in process_batch_robust and in generate_categories the list of results
\* keeps the order of the input titles: the k-th result is the one of the k-th
\* title's own call, in whatever order the calls of a batch finish and for
\* every batch size, and the returned list has one result per title.
C6_IndexStableReassembly ==
    pipeline \in {"robust", "limited"} =>
        /\ Len(results) <= Len(titles)
        /\ \A k \in 1..Len(results) : OwnResult(k)
        /\ main_pc = "returned" => Len(results) = Len(titles)

\* both titles were in one batch, the second finished first and the two calls
\* gave different results
C6_Witness ==
    /\ pipeline = "limited"
    /\ main_pc = "returned"
    /\ batch_size = 2
    /\ done_order = <<2, 1>>
    /\ results[1] # results[2]

\* some step of the robust pipeline can be taken: the batch loop can go on, a
\* coroutine can issue its next attempt, or an awaited call can end
RobustCanStep ==
    \/ main_pc = "loop"
    \/ main_pc = "gather" /\ \A j \in BatchOf(batch_start) : task_pc[j] = "returned"
    \/ \E i \in Tasks : task_pc[i] = "ready" /\ attempt[i] < max_retries
    \/ \E i \in Tasks : task_pc[i] = "awaiting"

\* C7: when every external call of a run of process_batch_robust has raised,
\* the run is never stuck and returns one record per input title, each with
\* the keyword-fallback pair of its title and is_valid = False.
C7_GracefulDegradation ==
    (pipeline = "robust" /\ all_raised) =>
        /\ main_pc # "returned" => RobustCanStep
        /\ main_pc = "returned" =>
               /\ Len(results) = Len(titles)
               /\ \A k \in 1..Len(titles) :
                      /\ results[k].title = titles[k]
                      /\ results[k].category = get_fallback_category(titles[k])[1]
                      /\ results[k].subcategory = get_fallback_category(titles[k])[2]
                      /\ results[k].is_valid = FALSE

\* the run has returned after every attempt of every title was made and raised
C7_Witness ==
    /\ pipeline = "robust"
    /\ main_pc = "returned"
    /\ all_raised
    /\ max_retries = RetryBound
    /\ \A i \in Tasks : calls_issued[i] = max_retries /\ last_outcome[i] = Raises

\* what get_openai_categories is to return for the outcomes of the model
ExpectedPair(outcome) ==
    CASE outcome = JsonFootwear -> <<"Footwear", "Running Shoes">>
      [] outcome = JsonElectronics -> <<"Electronics", "Smartphones">>
      [] outcome = JsonNoSubcategory -> <<"Beauty", "Unknown">>
      [] outcome = NotJson -> <<"Unknown", "Unknown">>
      [] outcome = Raises -> <<"Unknown", "Unknown">>

\* C8: in generate_categories a call that raises or answers unparseable text
\* gives ("Unknown", "Unknown") for its own title only: every coroutine returns
\* the pair of its own call's outcome, no coroutine ends with an exception, and
\* the run returns one pair per title with the other titles' pairs intact.
C8_FailureIsolation ==
    pipeline = "limited" =>
        /\ \A i \in Tasks :
               task_result[i] # NotReturned => task_result[i] = ExpectedPair(last_outcome[i])
        /\ main_pc = "returned" =>
               /\ Len(results) = Len(titles)
               /\ \A i \in Tasks :
                      task_pc[i] = "returned" /\ results[i] = ExpectedPair(last_outcome[i])

\* the run has returned; the first title's call raised and the second title,
\* of the same batch, kept the pair of its own answer
C8_Witness ==
    /\ pipeline = "limited"
    /\ main_pc = "returned"
    /\ batch_size = 2
    /\ last_outcome[1] = Raises
    /\ last_outcome[2] = JsonFootwear
    /\ results = << <<"Unknown", "Unknown">>, <<"Footwear", "Running Shoes">> >>

\* the first tier with an answer for `title` in the current state: the
\* persistent row, a stored embedding near enough, a keyword, else the service
FirstTierWithAnswer(title) ==
    IF normalized_title[title] \in DOMAIN cache_db THEN "exact_cache"
    ELSE IF \E k \in 1..Len(category_cache) :
                SimilarityAtLeast(encode[title], category_cache[k].embedding,
                                  SimilarityThreshold)
         THEN "similarity_cache"
    ELSE IF \E k \in 1..Len(rule_keywords) : Contains(Lower(title), rule_keywords[k][1])
         THEN "rule_based"
    ELSE "openai_api"

\* the first tier with an answer, for every title of the model
FirstTier == [t \in OptTitles |-> FirstTierWithAnswer(t)]

\* C9: every call of get_category_with_optimizations is answered by the first
\* tier, in the order exact persistent cache, similarity cache, keyword rules,
\* external service, that has an answer when the call is made; the tiers after
\* it are not consulted, and the external service is called only when the
\* three local tiers all miss.
C9_StrictTierOrder ==
    [][Len(history') = Len(history) + 1 =>
          LET lookup == history'[Len(history')]
              first == FirstTier[lookup.title]
          IN  /\ lookup.method = first
              /\ lookup.consulted[Len(lookup.consulted)] = first
              /\ lookup.api_called = (first = "openai_api")
              /\ category_cache' # category_cache => first = "openai_api"]_vars

\* a lookup was answered by the similarity cache although a keyword rule has an
\* answer for the title too, and another lookup went to the service
C9_Witness ==
    /\ pipeline = "optimized"
    /\ \E k \in 1..Len(history) :
           /\ history[k].method = "similarity_cache"
           /\ rule_based_categorization(history[k].title) # None
    /\ \E k \in 1..Len(history) : history[k].api_called

\* some pattern matches the cleaned text and its two groups, title-cased, are
\* a registered pair as they stand
ExactlyRegistered(cleaned) ==
    \E p \in 1..Len(patterns) :
        LET match == re_search(patterns[p], cleaned)
        IN  /\ match # <<>>
            /\ InTaxonomy(Title(match[1]), Title(match[2]))

\* some pattern matches the cleaned text and validate_and_correct_categories
\* resolves its two groups to a pair, as they stand or corrected
PatternResolves(cleaned) ==
    \E p \in 1..Len(patterns) :
        LET match == re_search(patterns[p], cleaned)
        IN  /\ match # <<>>
            /\ validate_and_correct_categories(match[1], match[2])[1] # None

\* the two predicates on the answers of the model (tables, evaluated once)
exactly_registered == [r \in RobustResponses |-> ExactlyRegistered(CleanResponse(r))]
pattern_resolves == [r \in RobustResponses |-> PatternResolves(CleanResponse(r))]

Scored == 1..Len(confidence_scores)

\* C11: every confidence score an estimator produces, and every value of
\* the confidence column, lies in [0.0, 1.0], whatever the cluster labels,
\* the categories, the subcategories and the validation flags are
C11_ConfidenceInUnitInterval ==
    pipeline = "confidence" =>
        /\ \A k \in Scored : confidence_scores[k] >= 0 /\ confidence_scores[k] <= 1000
        /\ score_pc = "attached" =>
               \A k \in 1..Len(df) :
                   df[k].confidence_score >= 0 /\ df[k].confidence_score <= 1000

\* a frame is scored in which a noise title stands next to a cluster of ten
\* or more titles that agree, where the product with the size multiplier
\* exceeds 1.0 and the cap acts
C11_Witness ==
    /\ pipeline = "confidence"
    /\ score_pc = "computed"
    /\ \E j \in Scored : df[j].cluster_label = NoiseLabel
    /\ \E k \in Scored :
          /\ Cardinality(cluster_products(df, df[k].cluster_label)) >= 10
          /\ same_category_count(df, k) = Cardinality(cluster_products(df, df[k].cluster_label))
          /\ confidence_scores[k] = 1000

\* the scored titles in a cluster of ten or more
InLargeCluster(k) ==
    /\ df[k].cluster_label # NoiseLabel
    /\ Cardinality(cluster_products(df, df[k].cluster_label)) >= 10

Assignment(frame, k) ==
    <<frame[k].openai_category, frame[k].openai_subcategory,
      frame[k].categorization_valid, frame[k].cluster_label>>

\* C18: no step of computing and attaching the confidence scores changes a
\* title's category, subcategory, validity flag or cluster label or the
\* number of rows, and what the estimator returns is one score per title,
\* the k-th score being that of the k-th title
C18_ScoringKeepsAssignments ==
    [][pipeline = "confidence" =>
          /\ Len(df') = Len(df)
          /\ \A k \in 1..Len(df) : Assignment(df', k) = Assignment(df, k)
          /\ score_pc' \in {"computed", "attached"} =>
                 /\ Len(confidence_scores') = Len(df)
                 /\ \A k \in 1..Len(df) :
                        confidence_scores'[k] = row_confidence(estimator, df, k)
          /\ score_pc' = "attached" =>
                 \A k \in 1..Len(df) : df'[k].confidence_score = confidence_scores'[k]]_vars

\* the scores have been attached to a frame of several titles, one of which
\* scored under 0.5 and kept its category
C18_Witness ==
    /\ pipeline = "confidence"
    /\ score_pc = "attached"
    /\ Len(df) > 2
    /\ \E k \in 1..Len(df) :
          /\ df[k].confidence_score < 500
          /\ df[k].openai_category # "Unknown"

(***************************************************************************)
(* Properties of normalize_titles                                          *)
(***************************************************************************)
\* C19: normalize_titles never raises and returns one key per cell of the
\* column in the order of the column: the trimmed, lower-cased title for a
\* present title, "unknown product" for a NaN cell
C19_NormalizeNeverRaises ==
    pipeline = "normalize" =>
        /\ norm_pc # "raised"
        /\ norm_pc = "returned" =>
               /\ Len(normalized) = Len(title_column)
               /\ \A k \in 1..Len(title_column) :
                      normalized[k] = IF title_column[k] = NaN
                                      THEN "unknown product"
                                      ELSE Lower(Strip(title_column[k]))

(***************************************************************************)
(* Properties of the start of the program                                  *)
(***************************************************************************)
\* C13: with OPENAI_API_KEY absent (unset or empty) the run goes from the
\* start of the import to the fatal error and nowhere else: no title is
\* normalized, no cache is read or written, no external call is issued and
\* no batch is started
C13_FailFastWithoutKey ==
    api_key \in {None, ""} =>
        /\ phase \in {"startup", "fatal"}
        /\ normalized = <<>> /\ norm_pc = "loop"
        /\ history = <<>> /\ cache_db = <<>> /\ category_cache = <<>>
        /\ main_pc = "loop" /\ batch_start = 0 /\ results = <<>>
        /\ \A j \in DOMAIN calls_issued : calls_issued[j] = 0
        /\ \A j \in DOMAIN task_pc : task_pc[j] = "created"

\* a module was imported without the variable in the environment and the
\* import ended in the error
C13_Witness ==
    /\ api_key = None
    /\ entry_module \in EntryModules
    /\ phase = "fatal"

\* C20: when a progress callback is passed to generate_categories the call
\* is accepted, the callback is invoked with (processed, total, percent)
\* with processed never decreasing, and when the pipeline has returned its
\* results the last invocation reported processed = total
C20_ProgressCallbackInvoked ==
    "progress_callback" \in call_keywords(entry_module) =>
        /\ phase # "type_error"
        /\ \A n \in 1..Len(progress_calls) :
              /\ progress_calls[n].total = Len(titles)
              /\ n > 1 => progress_calls[n - 1].processed <= progress_calls[n].processed
        /\ (phase = "running" /\ main_pc = "returned") =>
              /\ Len(progress_calls) > 0
              /\ progress_calls[Len(progress_calls)].processed = Len(titles)

(***************************************************************************)
(* The limiter's lock and outstanding calls                                *)
(***************************************************************************)
\* C14: the lock of the rate limiter is never held by a task whose external
\* call is outstanding: whoever holds it is asleep inside wait_if_needed, so
\* a task that holds a permit and waits for the lock waits for a sleep that
\* ends, never for an external call
C14_LockFreeWhileCallOutstanding ==
    pipeline = "limited" =>
        /\ \A i \in Outstanding : lock_holder # i
        /\ lock_holder # 0 =>
              /\ task_pc[lock_holder] = "limiter_sleep"
              /\ sleep_left >= 0

\* under a limit of one request per window two external calls are
\* outstanding at once and the lock is free: the second task passed the
\* limiter while the call of the first had not ended
C14_Witness ==
    /\ pipeline = "limited"
    /\ rpm = 1
    /\ lock_holder = 0
    /\ Len(requests) >= 1
    /\ \E i \in Tasks : \E j \in Tasks :
          /\ i # j
          /\ task_pc[i] = "awaiting"
          /\ task_pc[j] = "awaiting"

(***************************************************************************)
(* What the optimized generator stores                                     *)
(***************************************************************************)
\* the lookups that went to the external service
ApiLookups == {m \in 1..Len(history) : history[m].api_called}

\* the similarity index holds `title` with the pair of lookup m and the
\* embedding of the title
IndexHolds(m) ==
    \E k \in 1..Len(category_cache) :
        /\ category_cache[k].title = history[m].title
        /\ category_cache[k].category = history[m].category
        /\ category_cache[k].subcategory = history[m].subcategory
        /\ category_cache[k].embedding = encode[history[m].title]

\* the title of lookup n has the hash of the title of lookup m, or its
\* embedding is within the threshold of it
SameOrSimilar(n, m) ==
    \/ get_title_hash(history[n].title) = get_title_hash(history[m].title)
    \/ SimilarityAtLeast(encode[history[n].title], encode[history[m].title],
                         SimilarityThreshold)

\* C15: after a lookup that went to the external service the exact cache
\* holds the returned pair under the hash of the title, the similarity index
\* holds the title with that pair and its embedding, and no later lookup of
\* the same or a sufficiently similar title goes to the external service
C15_ApiResultInBothStores ==
    pipeline = "optimized" =>
        \A m \in ApiLookups :
            /\ get_cached_category(history[m].title)
                 = <<history[m].category, history[m].subcategory>>
            /\ IndexHolds(m)
            /\ \A n \in 1..Len(history) :
                  (n > m /\ SameOrSimilar(n, m)) => ~history[n].api_called

\* a title was answered by the external service and a later lookup of a
\* different, similar title was answered from the similarity index
C15_Witness ==
    /\ pipeline = "optimized"
    /\ \E m \in ApiLookups : \E n \in 1..Len(history) :
          /\ n > m
          /\ ~history[m].raised
          /\ get_title_hash(history[n].title) # get_title_hash(history[m].title)
          /\ SameOrSimilar(n, m)
          /\ history[n].method = "similarity_cache"

\* C16: a lookup whose external call failed leaves no entry for its title
\* in the exact cache or in the similarity index, and no later lookup of
\* that title is answered from a cache with the failure result
C16_NoEntryAfterFailedCall ==
    pipeline = "optimized" =>
        \A m \in 1..Len(history) :
            history[m].raised =>
                /\ m = Len(history) =>
                      /\ get_cached_category(history[m].title) = None
                      /\ \A k \in 1..Len(category_cache) :
                            category_cache[k].title # history[m].title
                /\ \A n \in 1..Len(history) :
                      (/\ n > m
                       /\ get_title_hash(history[n].title) = get_title_hash(history[m].title)
                       /\ history[n].method \in {"exact_cache", "similarity_cache"})
                          => <<history[n].category, history[n].subcategory>>
                               # <<"Unknown", "Unknown">>

\* C17: every pair the tiered cache stores, in the exact cache and in the
\* similarity index, is a pair of the taxonomy
C17_StoredPairsInTaxonomy ==
    pipeline = "optimized" =>
        /\ \A h \in DOMAIN cache_db :
              InTaxonomy(cache_db[h].category, cache_db[h].subcategory)
        /\ \A k \in 1..Len(category_cache) :
              InTaxonomy(category_cache[k].category, category_cache[k].subcategory)

(***************************************************************************)
(* The retry loop of one title                                             *)
(***************************************************************************)
\* the coroutine of title i has returned a 4-tuple whose is_valid tells
\* the terminal outcome: validated (TRUE) or fallback (FALSE)
Terminated(i) ==
    /\ task_pc[i] = "returned"
    /\ Len(task_result[i]) = 4
    /\ task_result[i][3] \in BOOLEAN
    /\ task_result[i][4] <= max_retries

\* C21: whatever the responses are, valid, invalid or raising, a coroutine
\* of get_category_with_retries that was started returns, validated or with
\* the fallback, after at most max_retries attempts
C21_RetryLoopTerminates ==
    \A i \in 1..NumTitles :
        (pipeline = "robust" /\ task_pc[i] \in {"ready", "awaiting"}) ~> Terminated(i)

\* a coroutine returned on its last attempt after every attempt before it
\* was answered invalidly or raised
C21_Witness ==
    /\ pipeline = "robust"
    /\ max_retries > 1
    /\ \E i \in 1..NumTitles :
          /\ Terminated(i)
          /\ task_result[i][4] = max_retries
          /\ ~task_result[i][3]

(***************************************************************************)
(* The requests of one title                                               *)
(***************************************************************************)
\* the previous attempt of coroutine i did not give a valid pair: the call
\* raised, or parse_and_validate_response judged the response invalid
PreviousAttemptFailed(i) ==
    \/ last_outcome[i] = Raises
    \/ /\ last_outcome[i] \in RobustResponses
       /\ ~ParsedResponse(last_outcome[i], titles[i])[3]

\* what a step of the pipeline does to the requests of coroutine i
RequestDiscipline(i) ==
    \* a request is issued while attempts remain and, after the first,
    \* only when the attempt before it failed
    /\ calls_issued'[i] # calls_issued[i] =>
           /\ calls_issued'[i] = calls_issued[i] + 1
           /\ calls_issued[i] < max_retries
           /\ calls_issued[i] > 0 => PreviousAttemptFailed(i)
    \* a response ends the loop when it is valid or is that of attempt
    \* max_retries, and the coroutine returns what the attempt parsed
    /\ (task_pc[i] = "awaiting" /\ task_pc'[i] # "awaiting"
            /\ last_outcome'[i] \in RobustResponses) =>
           LET parsed == ParsedResponse(last_outcome'[i], titles[i])
           IN  IF parsed[3] \/ calls_issued[i] = max_retries
               THEN /\ task_pc'[i] = "returned"
                    /\ task_result'[i] = <<parsed[1], parsed[2], parsed[3], calls_issued[i]>>
               ELSE task_pc'[i] = "ready"
    \* a coroutine that has returned issues nothing more
    /\ task_pc[i] = "returned" => calls_issued'[i] = calls_issued[i]
    /\ calls_issued'[i] <= max_retries

\* C22: for one title get_category_with_retries issues a further request only
\* after an attempt whose response was invalid or whose call raised, and only
\* while fewer than max_retries attempts were made; it returns at the first
\* valid response and at attempt max_retries whatever the response; it never
\* issues more than max_retries requests.
C22_RetryOnlyAfterFailure ==
    [][pipeline = "robust" => \A i \in 1..NumTitles : RequestDiscipline(i)]_vars

\* a title whose first response was invalid and whose second was valid
\* returned after two of three allowed requests
C22_Witness ==
    /\ pipeline = "robust"
    /\ max_retries = 3
    /\ \E i \in 1..NumTitles :
          /\ task_pc[i] = "returned"
          /\ calls_issued[i] = 2
          /\ task_result[i][3]
          /\ task_result[i][4] = 2

(***************************************************************************)
(* Exhaustion of the attempts                                              *)
(***************************************************************************)
\* the pair of the first of the rules k, k + 1, ... one of whose keywords
\* occurs in the lower-cased title, else the fixed default pair
RECURSIVE FirstRuleFrom(_, _)
FirstRuleFrom(k, title_lower) ==
    IF k > Len(fallback_rules)
    THEN <<"Clothing", "Accessories">>
    ELSE IF \E n \in 1..Len(fallback_rules[k].keywords) :
                Contains(title_lower, fallback_rules[k].keywords[n])
         THEN fallback_rules[k].pair
         ELSE FirstRuleFrom(k + 1, title_lower)

\* the keyword pairs of the titles of the model (a table, evaluated once)
keyword_pair_table ==
    [k \in 1..Len(test_titles) |-> FirstRuleFrom(1, Lower(test_titles[k]))]

\* the keyword pairs of the titles of the run
KeywordPairs ==
    [i \in 1..NumTitles |->
        keyword_pair_table[CHOOSE k \in 1..Len(test_titles) : test_titles[k] = titles[i]]]

\* C23: a coroutine whose call raised on the last allowed attempt returns the
\* keyword fallback of its title (the pair of the first rule with a keyword in
\* the title, else the default pair) with is_valid False and attempts_used =
\* max_retries, whatever the earlier attempts answered; no coroutine ends with
\* an exception and no record is an 'exception_fallback'.
C23_FallbackOnExhaustion ==
    pipeline = "robust" =>
        /\ \A i \in 1..NumTitles :
               (task_pc[i] = "returned" /\ last_outcome[i] = Raises) =>
                   /\ calls_issued[i] = max_retries
                   /\ task_result[i] =
                          <<KeywordPairs[i][1], KeywordPairs[i][2], FALSE, max_retries>>
        /\ \A i \in 1..NumTitles : task_result[i] # Raises
        /\ \A k \in 1..Len(results) : results[k].method = "openai_api"

\* the first title got a response at an earlier attempt, its third and last
\* call raised, and it returned before the second title issued anything
C23_Witness ==
    /\ pipeline = "robust"
    /\ max_retries = 3
    /\ task_pc[1] = "returned"
    /\ last_outcome[1] = Raises
    /\ ~all_raised
    /\ calls_issued[2] = 0
    /\ ~task_result[1][3]
    /\ task_result[1][4] = 3

(***************************************************************************)
(* The order of the batches                                                *)
(***************************************************************************)
\* the number of the batch the i-th title falls in, counted from 0
BatchNo(i) == (i - 1) \div batch_size

\* coroutine j holds or held a permit, or has issued a call
Started(j) ==
    \/ task_pc[j] \in {"want_lock", "limiter_sleep", "awaiting", "returned"}
    \/ calls_issued[j] > 0

\* what a step does to the coroutines of the batches
BatchDiscipline ==
    \* an item of a later batch has a permit or a call only when every item
    \* of the batches before it has finished
    /\ \A i, j \in 1..NumTitles :
           (BatchNo(i) < BatchNo(j) /\ Started(j)') => task_pc'[i] = "returned"
    \* the items of one batch are started in one step, none waiting for another
    /\ \A i, j \in 1..NumTitles :
           (BatchNo(i) = BatchNo(j) /\ task_pc[i] = "created" /\ task_pc'[i] # "created") =>
               /\ task_pc[j] = "created"
               /\ task_pc'[j] \in {"ready", "want_permit"}

\* C24: batches are submitted one after the other: no item of a later batch
\* acquires a permit or issues a call before every item of the earlier
\* batches has finished, and the items of one batch are all started together.
C24_BatchesSequential ==
    [][(pipeline \in {"robust", "limited"}) => BatchDiscipline]_vars

\* batches of one: the second title's call is outstanding after the first
\* title's coroutine has returned
C24_Witness ==
    /\ pipeline = "limited"
    /\ batch_size = 1
    /\ main_pc = "gather"
    /\ task_pc[1] = "returned"
    /\ task_pc[2] = "awaiting"

(***************************************************************************)
(* Mutual exclusion in RateLimiter.wait_if_needed                          *)
(***************************************************************************)
\* the tasks inside  async with self.lock  across a suspension
InLimiter == {i \in 1..NumTitles : task_pc[i] = "limiter_sleep"}

\* what a step does to the lock and to the timestamp list
LimiterExclusion ==
    \* the task inside the section is the holder of the lock, so it is alone
    /\ \A i \in InLimiter' : lock_holder' = i
    /\ Cardinality(InLimiter') <= 1
    \* while a task is in the section the list gains or loses entries only
    \* by that task's own prune and append
    /\ (InLimiter # {} /\ Len(requests') # Len(requests)) =>
           \E i \in InLimiter : task_pc'[i] = "awaiting"
    \* nobody enters while a task is in the section
    /\ InLimiter # {} => InLimiter' \subseteq InLimiter

IssuesRequest(i) == calls_issued'[i] = calls_issued[i] + 1

\* the step that issues a request of title i is the end of a wait_if_needed
\* that recorded the admission, and the call is outstanding under a permit
AdmittedAndGated(i) ==
    /\ requests' = Append(Prune(requests), 0)
    /\ task_pc'[i] = "awaiting"
    /\ permits' >= 0
    /\ permits' <= concurrent - Cardinality({j \in 1..NumTitles : task_pc'[j] = "awaiting"})

\* C26: every external call made for a title, each retry of
\* get_category_with_retries included, is first admitted by the RateLimiter
\* and holds a permit of the semaphore while it is outstanding.
C26_EveryCallAdmittedAndGated ==
    [][\A i \in 1..NumTitles : IssuesRequest(i) => AdmittedAndGated(i)]_vars

(***************************************************************************)
(* The cluster-based confidence                                            *)
(***************************************************************************)
\* m(n) in tenths: 1.1 for n >= 10, 1.0 for n >= 5, 0.9 for n >= 3, else 0.8
MultiplierTenths(n) ==
    CASE n >= 10 -> 11
      [] n >= 5 /\ n < 10 -> 10
      [] n >= 3 /\ n < 5 -> 9
      [] OTHER -> 8

\* n times min(1.0, m(n) * (0.6 * c + 0.4 * s)) in thousandths, for a title
\* that shares its category with a and its subcategory with b of the n
\* members of its cluster
BlendTimesSize(n, a, b) ==
    LET x == 10 * MultiplierTenths(n) * (6 * a + 4 * b)
    IN  IF x > 1000 * n THEN 1000 * n ELSE x

\* the scored titles the cluster-based confidence is computed for: inside a
\* cluster, in a frame with category columns, by one of the two estimators
\* that use the cluster signal alone
ClusterScored ==
    {k \in Scored : /\ estimator \in {"category_gen_optimized", "clustering_analysis"}
                    /\ df[k].cluster_label # NoiseLabel
                    /\ df[k].openai_category # None}

ClusterSize(k) == Cardinality(cluster_products(df, df[k].cluster_label))

\* C27, as stated: the cluster-based confidence of a non-noise title is
\* exactly min(1.0, m(n) * (0.6 * c + 0.4 * s))
C27_ClusterConfidenceExact ==
    pipeline = "confidence" =>
        \A k \in ClusterScored :
            confidence_scores[k] * ClusterSize(k) =
                BlendTimesSize(ClusterSize(k), same_category_count(df, k),
                               same_subcategory_count(df, k))

\* C27, to the third decimal: the cluster-based confidence of a non-noise
\* title is min(1.0, m(n) * (0.6 * c + 0.4 * s)) rounded to the nearest
\* thousandth, so it differs from it by at most 0.0005
C27_ClusterConfidenceRounded ==
    pipeline = "confidence" =>
        \A k \in ClusterScored :
            LET d == confidence_scores[k] * ClusterSize(k)
                       - BlendTimesSize(ClusterSize(k), same_category_count(df, k),
                                        same_subcategory_count(df, k))
            IN  2 * d <= ClusterSize(k) /\ -2 * d <= ClusterSize(k)

\* a title alone with its category and its subcategory in a cluster of six
\* is scored 0.167, the blend being 1/6
C27_Witness ==
    /\ pipeline = "confidence"
    /\ \E k \in ClusterScored :
          /\ ClusterSize(k) = 6
          /\ same_category_count(df, k) = 1
          /\ same_subcategory_count(df, k) = 1
          /\ confidence_scores[k] = 167

(***************************************************************************)
(* The estimator that blends the validator's signal                        *)
(***************************************************************************)
\* the titles scored by calculate_confidence_scores of category_gen_robust
RobustScored == {k \in Scored : estimator = "category_gen_robust"}

\* base in tenths: 0.9 if the title was validated, 0.6 otherwise
BaseTenths(k) == IF df[k].categorization_valid = "False" THEN 6 ELSE 9

\* n times (0.7 * base + 0.3 * m(n) * (0.6 * c + 0.4 * s)) in thousandths
BlendedTimesSize(k) ==
    70 * BaseTenths(k) * ClusterSize(k)
      + 3 * MultiplierTenths(ClusterSize(k))
          * (6 * same_category_count(df, k) + 4 * same_subcategory_count(df, k))

\* C28: in the estimator that also uses the validator's signal, the final
\* confidence of a title is 0.7 * base + 0.3 * cluster-adjusted (to the third
\* decimal), and for a noise title the cluster-adjusted term is the flat
\* 0.3, so that a noise title receives 0.7 * base + 0.3 * 0.3.
C28_BlendWithValidatorSignal ==
    pipeline = "confidence" =>
        \A k \in RobustScored :
            IF df[k].cluster_label = NoiseLabel
            THEN confidence_scores[k] = 70 * BaseTenths(k) + 90
            ELSE LET d == confidence_scores[k] * ClusterSize(k) - BlendedTimesSize(k)
                 IN  2 * d <= ClusterSize(k) /\ -2 * d <= ClusterSize(k)

(***************************************************************************)
(* The exact cache under repeated and racing writes                        *)
(***************************************************************************)
\* the hashes the callers write under
CacheHashes == {get_title_hash(title) : title \in CacheTitles}

\* the rows of the table under hash h, as positions
RowsUnder(table, h) == {i \in 1..Len(table) : table[i].title_hash = h}

\* what a row holds for its key: the values a call of cache_category passed
Entry(r) ==
    [title_hash |-> r.title_hash, title |-> r.title, category |-> r.category,
     subcategory |-> r.subcategory, confidence |-> r.confidence]

\* the entries of the table
Entries(table) == {Entry(table[i]) : i \in 1..Len(table)}

\* the statements run so far under hash h, as positions of the log
WritesUnder(h) == {n \in 1..Len(write_log) : write_log[n].title_hash = h}

\* the greatest member of a non-empty set of positions
Latest(S) == CHOOSE n \in S : \A m \in S : m <= n

\* C29: after any sequence and interleaving of calls of cache_category the
\* table holds at most one row per title hash, none for a hash never
\* written, and for a hash that was written exactly the values of the most
\* recent statement run under it.
C29_OneEntryPerHashLastWriteWins ==
    pipeline = "cache" =>
        \A h \in CacheHashes :
            IF WritesUnder(h) = {}
            THEN RowsUnder(category_cache_table, h) = {}
            ELSE /\ Cardinality(RowsUnder(category_cache_table, h)) = 1
                 /\ \A i \in RowsUnder(category_cache_table, h) :
                        Entry(category_cache_table[i]) = write_log[Latest(WritesUnder(h))]

\* two callers raced on one hash with different values and both statements
\* have run
C29_Witness ==
    /\ pipeline = "cache"
    /\ \E h \in CacheHashes :
          /\ Cardinality(WritesUnder(h)) >= 2
          /\ \E m, n \in WritesUnder(h) : write_log[m].category # write_log[n].category
          /\ Cardinality(RowsUnder(category_cache_table, h)) = 1
    /\ \A w \in Writers : pending[w] = {}

\* the latest statement repeats the values that were already in the table
\* under its hash
Rewrite ==
    /\ Len(write_log') = Len(write_log) + 1
    /\ write_log'[Len(write_log')] \in Entries(category_cache_table)

\* C30: a call of cache_category with the title, category, subcategory and
\* confidence the table already holds for that title leaves the table as it
\* was: the same entries, one row each, and nothing under another hash is
\* touched.  (The row is inserted anew, so its created_at is the time of the
\* rewrite; no column the generator reads is changed.)
C30_RewriteIsNoOp ==
    [][(pipeline = "cache" /\ Rewrite) =>
          /\ Entries(category_cache_table') = Entries(category_cache_table)
          /\ Len(category_cache_table') = Len(category_cache_table)]_vars

\* the same statement has run twice in a row and the table holds its one row
C30_Witness ==
    /\ pipeline = "cache"
    /\ Len(write_log) >= 2
    /\ write_log[Len(write_log)] = write_log[Len(write_log) - 1]
    /\ Len(category_cache_table) = 1
    /\ Entries(category_cache_table) = {write_log[Len(write_log)]}

(***************************************************************************)
(* Growth of the exact cache and of the similarity index                   *)
(***************************************************************************)
\* the titles held in self.category_cache
IndexTitles(index) == {index[k].title : k \in 1..Len(index)}

\* the titles some lookup so far was answered for by the exact cache
HitExactCache == {history[n].title : n \in {m \in 1..Len(history) :
                                             history[m].method = "exact_cache"}}

\* C31: during a run no key leaves the exact cache and no title leaves the
\* similarity index (entries are added or overwritten only), and a title that
\* was once answered by the exact cache is still answered by it.
C31_CachesNeverShrink ==
    [][pipeline = "optimized" =>
          /\ DOMAIN cache_db \subseteq DOMAIN cache_db'
          /\ IndexTitles(category_cache) \subseteq IndexTitles(category_cache')
          /\ Len(category_cache') >= Len(category_cache)
          /\ \A title \in HitExactCache' : get_cached_category(title)' # None]_vars

\* two keys are in the exact cache, a title is in the index, and a title was
\* answered by the exact cache before a later lookup wrote another key
C31_Witness ==
    /\ pipeline = "optimized"
    /\ Len(history) = 3
    /\ history[2].method = "exact_cache"
    /\ history[3].method # "exact_cache"
    /\ Cardinality(DOMAIN cache_db) = 2
    /\ category_cache # <<>>

(***************************************************************************)
(* The order of the separator patterns                                     *)
(***************************************************************************)
\* the separators in the order '|', ':', '-', '>'
SeparatorOrder == <<"|", ":", "-", ">">>

\* the n-th separator's pattern matches the cleaned response
Matches(n) == re_search(SeparatorOrder[n], CleanResponse(parse_response)) # <<>>

\* what the match of the n-th separator's pattern validates to
ValidatedMatch(n) ==
    LET match == re_search(SeparatorOrder[n], CleanResponse(parse_response))
    IN  validate_and_correct_categories(match[1], match[2])

\* the n-th separator's pattern matches and its match validates
MatchesAndValidates(n) ==
    /\ Matches(n)
    /\ ValidatedMatch(n)[1] # None
    /\ ValidatedMatch(n)[2] # None

\* the separators among the first n whose pattern matches, in order
RECURSIVE MatchedUpTo(_)
MatchedUpTo(n) ==
    IF n = 0 THEN <<>>
    ELSE IF Matches(n) THEN Append(MatchedUpTo(n - 1), SeparatorOrder[n])
    ELSE MatchedUpTo(n - 1)

\* C32, as stated: the patterns are tried in the order '|', ':', '-', '>' and
\* the first one that matches determines the result; once a pattern has
\* matched no later pattern is used.
C32_FirstMatchDecides ==
    pipeline = "parse" =>
        /\ Len(parse_matched) <= 1
        /\ (parse_pc = Returned /\ parse_matched # <<>>) =>
               \E n \in 1..Len(SeparatorOrder) :
                   /\ SeparatorOrder[n] = parse_matched[1]
                   /\ \A m \in 1..(n - 1) : ~Matches(m)
                   /\ parse_result = <<ValidatedMatch(n)[1], ValidatedMatch(n)[2], TRUE>>

\* C32, with the validation: the patterns are tried in the order '|', ':',
\* '-', '>' and the first one that matches and whose match validates
\* determines the result; a pattern that matched without validating is passed
\* over and the later patterns are tried; once a match has validated no later
\* pattern is used.
C32_FirstValidatedMatchDecides ==
    (pipeline = "parse" /\ parse_pc = Returned) =>
        IF \E n \in 1..Len(SeparatorOrder) : MatchesAndValidates(n)
        THEN LET first == CHOOSE n \in 1..Len(SeparatorOrder) :
                              /\ MatchesAndValidates(n)
                              /\ \A m \in 1..(n - 1) : ~MatchesAndValidates(m)
             IN  /\ parse_result = <<ValidatedMatch(first)[1], ValidatedMatch(first)[2], TRUE>>
                 /\ parse_matched = MatchedUpTo(first)
        ELSE /\ parse_result[3] = FALSE
             /\ parse_matched = MatchedUpTo(Len(SeparatorOrder))

\* the '|' pattern matched without validating, the '-' pattern likewise, and
\* the '>' pattern gave the result
C32_Witness ==
    /\ pipeline = "parse"
    /\ parse_pc = Returned
    /\ parse_matched = <<"|", "-", ">">>
    /\ parse_result = <<"Footwear", "Boots", TRUE>>

(***************************************************************************)
(* The rule table                                                          *)
(***************************************************************************)
\* the index of the first rule from k on whose keyword is in the lower-cased
\* title, 0 when there is none
RECURSIVE FirstKeywordFrom(_, _)
FirstKeywordFrom(k, title_lower) ==
    IF k > Len(rule_keywords) THEN 0
    ELSE IF Contains(title_lower, rule_keywords[k][1]) THEN k
    ELSE FirstKeywordFrom(k + 1, title_lower)

\* the first rule of each title of the model (a table, evaluated once)
first_keyword_table == [t \in OptTitles |-> FirstKeywordFrom(1, Lower(t))]

\* the lookups in which rule_based_categorization was evaluated
RuleLookups ==
    {n \in 1..Len(history) :
        \E k \in 1..Len(history[n].consulted) : history[n].consulted[k] = "rule_based"}

\* C33: rule_based_categorization returns the pair of the first rule, in
\* table order, whose keyword is in the lower-cased title, and a miss when no
\* keyword is in it; of several keywords in one title the earliest of the
\* table decides.
C33_FirstRuleInTableOrderWins ==
    pipeline = "optimized" =>
        \A n \in RuleLookups :
            LET first == first_keyword_table[history[n].title]
            IN  IF first = 0
                THEN history[n].method = "openai_api"
                ELSE /\ history[n].method = "rule_based"
                     /\ history[n].category = rule_keywords[first][2]
                     /\ history[n].subcategory = rule_keywords[first][3]

\* a title that holds "camera" before "phone" and a clothing keyword after
\* them was answered by the rule of "phone", the first of the table
C33_Witness ==
    /\ pipeline = "optimized"
    /\ \E n \in RuleLookups :
          /\ history[n].title = "Camera Phone Jacket"
          /\ history[n].method = "rule_based"
          /\ history[n].category = "Electronics"
          /\ history[n].subcategory = "Mobile Phones"

(***************************************************************************)
(* The similarity tier                                                     *)
(***************************************************************************)
\* the cosine of a and b is at least 0.85: 20 * dot >= 17 * |a| * |b|
CosineAtLeastThreshold(a, b) ==
    /\ Dot(a, b) >= 0
    /\ 400 * Dot(a, b) * Dot(a, b) >= 289 * NormSq(a) * NormSq(b)

\* the cosine of a and b is at least that of a and c (no negative components)
CosineAtLeast(a, b, c) ==
    Dot(a, b) * Dot(a, b) * NormSq(c) >= Dot(a, c) * Dot(a, c) * NormSq(b)

\* the entries of the index whose similarity to the title reaches the
\* threshold
Eligible(title) ==
    {k \in 1..Len(category_cache) :
        CosineAtLeastThreshold(encode[title], category_cache[k].embedding)}

\* the step is a lookup that evaluated find_similar_category
SimilarityLookup ==
    /\ Len(history') = Len(history) + 1
    /\ \E k \in 1..Len(history'[Len(history')].consulted) :
           history'[Len(history')].consulted[k] = "similarity_cache"

\* what the lookup answered, given the index it met
SimilarityAnswer ==
    LET rec == history'[Len(history')]
        eligible == Eligible(rec.title)
    IN  IF eligible = {}
        THEN rec.method # "similarity_cache"
        ELSE /\ rec.method = "similarity_cache"
             /\ \E k \in eligible :
                    /\ \A j \in 1..Len(category_cache) :
                           CosineAtLeast(encode[rec.title], category_cache[k].embedding,
                                         category_cache[j].embedding)
                    /\ rec.category = category_cache[k].category
                    /\ rec.subcategory = category_cache[k].subcategory
             /\ get_title_hash(rec.title) \in DOMAIN cache_db'
             /\ cache_db'[get_title_hash(rec.title)].category = rec.category
             /\ cache_db'[get_title_hash(rec.title)].subcategory = rec.subcategory

\* C34: find_similar_category returns the pair of the stored entry with the
\* greatest cosine similarity to the title when that similarity is at least
\* the threshold, and a miss otherwise, also on an empty index; it never
\* returns an entry under the threshold; a similarity hit is written into
\* the exact cache.
C34_MostSimilarAboveThreshold ==
    [][(pipeline = "optimized" /\ SimilarityLookup) => SimilarityAnswer]_vars

\* with two entries in the index that both reach the threshold, the lookup
\* was answered by the second, the more similar one
C34_Witness ==
    /\ pipeline = "optimized"
    /\ Len(history) = 3
    /\ Len(category_cache) = 2
    /\ history[3].method = "similarity_cache"
    /\ Eligible(history[3].title) = {1, 2}
    /\ ~CosineAtLeast(encode[history[3].title], category_cache[1].embedding,
                      category_cache[2].embedding)
    /\ category_cache[1].category # category_cache[2].category
    /\ history[3].category = category_cache[2].category

(***************************************************************************)
(* The timestamp list after an admission                                   *)
(***************************************************************************)
\* the step completes a wait_if_needed: a timestamp is appended and the call
\* of the task is issued
CompletesAdmit ==
    \E i \in 1..NumTitles : calls_issued'[i] = calls_issued[i] + 1

\* the entries of a list of ages that are less than 60 seconds old
InWindow(reqs) == {k \in 1..Len(reqs) : reqs[k] < Window}

\* the list after the admission
AfterAdmit ==
    \* at most max_requests_per_minute entries
    /\ Len(requests') <= rpm
    \* timestamps in non-decreasing order, that is ages in non-increasing order
    /\ \A k \in 1..(Len(requests') - 1) : requests'[k] >= requests'[k + 1]
    \* the newest entry is the admission itself, every entry is less than 60
    \* seconds older
    /\ requests'[Len(requests')] = 0
    /\ \A k \in 1..Len(requests') : requests'[k] < Window
    \* the window met by the append held fewer than the limit, and nothing
    \* but the stale entries was dropped
    /\ Cardinality(InWindow(requests)) < rpm
    /\ Len(requests') = Cardinality(InWindow(requests)) + 1

\* C35: after every completed admit the timestamp list is in non-decreasing
\* order, holds at most max_requests_per_minute entries, and every entry is
\* less than 60 seconds older than the newest; a timestamp is appended only
\* when the pruned window, re-evaluated after a wait, holds fewer than
\* max_requests_per_minute entries.
C35_WindowAfterAdmit ==
    [][(pipeline = "limited" /\ CompletesAdmit) => AfterAdmit]_vars

\* under a limit of one the second admission has completed after a wait: the
\* list holds its timestamp only
C35_Witness ==
    /\ pipeline = "limited"
    /\ rpm = 1
    /\ lock_holder = 0
    /\ requests = <<0>>
    /\ \E i, j \in 1..NumTitles :
          /\ i # j
          /\ calls_issued[i] = 1
          /\ calls_issued[j] = 1
          /\ task_pc[j] = "awaiting"

(***************************************************************************)
(* Every wait_if_needed returns                                            *)
(***************************************************************************)
\* task i has called wait_if_needed and has not returned from it
InWaitIfNeeded(i) == task_pc[i] \in {"want_lock", "limiter_sleep"}

\* a sleeping caller has exactly the time left after which the oldest
\* timestamp of the window is 60 seconds and the buffer old
SleepsForOldest ==
    (pipeline = "limited" /\ lock_holder # 0 /\ sleep_left > 0) =>
        /\ requests # <<>>
        /\ IF requests[1] < Window
              THEN sleep_left = Window - requests[1] + Buffer
              ELSE sleep_left <= Buffer

InsideSemaphore == {i \in 1..NumTitles : task_pc[i] \in {"want_lock", "limiter_sleep", "awaiting"}}

\* the steps of one task of generate_categories
CallOrder(i) ==
    \* the permit is taken first, before any call
    /\ (task_pc[i] = "want_permit" /\ task_pc'[i] # "want_permit") =>
          /\ task_pc'[i] = "want_lock"
          /\ permits' = permits - 1
          /\ calls_issued[i] = 0
          /\ calls_issued'[i] = 0
    \* the wait of the limiter happens with the permit held
    /\ (task_pc[i] = "want_lock" /\ task_pc'[i] # "want_lock") =>
          /\ task_pc'[i] \in {"limiter_sleep", "awaiting"}
          /\ permits' = permits
    /\ (task_pc[i] = "limiter_sleep" /\ task_pc'[i] # "limiter_sleep") =>
          /\ task_pc'[i] = "awaiting"
          /\ permits' = permits
    \* the call is issued by the step that completes the admission
    /\ calls_issued'[i] # calls_issued[i] =>
          /\ task_pc[i] \in {"want_lock", "limiter_sleep"}
          /\ task_pc'[i] = "awaiting"
          /\ calls_issued[i] = 0
          /\ calls_issued'[i] = 1
          /\ Len(requests') > 0
          /\ requests'[Len(requests')] = 0
          /\ permits' = permits
    /\ task_pc'[i] = "awaiting" => calls_issued'[i] = 1
    \* the permit is given back after the call, and the task is over
    /\ (task_pc[i] = "awaiting" /\ task_pc'[i] # "awaiting") =>
          /\ task_pc'[i] = "returned"
          /\ permits' = permits + 1
          /\ calls_issued'[i] = 1
    /\ task_pc[i] = "returned" => task_pc'[i] = "returned" /\ calls_issued'[i] = 1

\* C37: in generate_categories every title causes exactly one external call
\* attempt, and for each title the order is: acquire the semaphore permit,
\* admission by the rate limiter, external call, release of the permit; the
\* wait of the rate limiter happens while the permit is held.
C37_OneCallInsidePermitAfterAdmit ==
    [][(pipeline = "limited") =>
          /\ permits = concurrent - Cardinality(InsideSemaphore)
          /\ permits' = concurrent' - Cardinality(InsideSemaphore')
          /\ \A i \in 1..NumTitles : CallOrder(i)]_vars

\* under one permit and a limit of one the second task sleeps in the limiter
\* with the only permit, after the first task has made its call and returned
C37_Witness ==
    /\ pipeline = "limited"
    /\ concurrent = 1
    /\ permits = 0
    /\ \E i, j \in 1..NumTitles :
          /\ task_pc[i] = "limiter_sleep"
          /\ calls_issued[i] = 0
          /\ task_pc[j] = "returned"
          /\ calls_issued[j] = 1

(***************************************************************************)
(* attempts_used counts the requests                                       *)
(***************************************************************************)
\* C38: the attempts_used returned by get_category_with_retries is exactly
\* the number of external requests issued for that title, the requests that
\* raised included.
C38_AttemptsUsedCountsRequests ==
    pipeline = "robust" =>
        \A i \in 1..NumTitles :
            task_pc[i] = "returned" =>
                /\ task_result[i] # NotReturned
                /\ task_result[i][4] = calls_issued[i]

\* a title returned after two requests, the last of which raised:
\* attempts_used is 2
C38_Witness ==
    /\ pipeline = "robust"
    /\ max_retries = 2
    /\ \E i \in 1..NumTitles :
          /\ task_pc[i] = "returned"
          /\ last_outcome[i] = Raises
          /\ calls_issued[i] = 2
          /\ task_result[i][4] = 2

(***************************************************************************)
(* A hit of the exact cache changes nothing                                *)
(***************************************************************************)
\* the step is a lookup that was answered by the exact cache
AnsweredByExactCache ==
    /\ Len(history') = Len(history) + 1
    /\ history'[Len(history')].method = "exact_cache"

\* the table and the index are as before, and the record of the lookup shows
\* the exact cache as the only tier evaluated
ExactHitFrame ==
    /\ cache_db' = cache_db
    /\ category_cache' = category_cache
    /\ history'[Len(history')].consulted = <<"exact_cache">>
    /\ ~history'[Len(history')].api_called
    /\ ~history'[Len(history')].raised
    /\ SubSeq(history', 1, Len(history)) = history

\* C39: a lookup answered by the exact cache has no side effects:
\* get_category_with_optimizations leaves the exact cache and the similarity
\* index unchanged and evaluates neither the similarity tier, the rule table
\* nor the external service.
C39_ExactHitHasNoSideEffects ==
    [][(pipeline = "optimized" /\ AnsweredByExactCache) => ExactHitFrame]_vars

\* the exact cache has answered for a title whose pair was written by a rule,
\* at a time when the index holds an embedding
C39_Witness ==
    /\ pipeline = "optimized"
    /\ Len(history) = 3
    /\ history[3].method = "exact_cache"
    /\ category_cache # <<>>
    /\ \E n \in 1..2 :
          /\ history[n].title = history[3].title
          /\ history[n].method = "rule_based"

====
